---- MODULE Spec2Model ----
(***************************************************************************)
(* A model of the automata toolkit: nfa.NFA, dfa.DFA, parsing.construct_nfa *)
(* with the postfix combiners, and distance.distance_table / update_nfa.    *)
(*                                                                         *)
(* Encoding of Python values:                                              *)
(*   - a character is its code point ('a' = 97); a str is a sequence of     *)
(*     characters; an operator id of parsing._operators is the int 0..6;    *)
(*   - a transition label is Str(s) for a Python str s ('' is Eps) or       *)
(*     Tup(t) for a Python tuple t of postfix tokens, so '' # () as in      *)
(*     Python;                                                             *)
(*   - an NFA's transitions (dict key -> set of dst) are the set of         *)
(*     triples <<src, sym, dst>>; a DFA's transitions (dict key -> dst) are  *)
(*     a function on pairs <<src, sym>>;                                     *)
(*   - a Python list is a sequence, list index i is position i + 1;         *)
(*   - the iteration order of a set of symbols is an input of the operator  *)
(*     that iterates (parameter order), chosen by the action.               *)
(***************************************************************************)
EXTENDS Integers, Sequences, FiniteSets, TLC

VARIABLES pc, stack, steps, nfa, dfa, string, table, result, call, old, olddfa,
          regex, postfix, params, heap, frame

vars == <<pc, stack, steps, nfa, dfa, string, table, result, call, old, olddfa,
          regex, postfix, params, heap, frame>>

(* The variables of the parser, the constructors, the object heap and the   *)
(* refinement loop; the other operations leave them alone.                 *)
rest == <<regex, postfix, params, heap, frame>>

NoParams == [op |-> "none"]

NoHeap == <<>>

NoFrame == [op |-> "none"]

RestInit ==
  /\ regex = <<>>
  /\ postfix = <<>>
  /\ params = NoParams
  /\ heap = NoHeap
  /\ frame = NoFrame

----------------------------------------------------------------------------
(* Bounds of the model *)

MaxPostfix == 5
MaxStrLen == 3
MaxDfaStates == 3
MaxNfaStates == 3
MaxEdges == 3
MaxDistStates == 2
MaxDistEdges == 2
MaxInput == 2
MaxOps == 3
MaxIdOps == 4
MaxVariantStates == 2
MaxVariantEdges == 2
MaxRipCalls == 2
MaxRegexLen == 4
MaxFairEdges == 2
MaxHeapStates == 3
MaxHeapEdges == 2

(* Characters *)
chA == 97
chB == 98
chLPar == 40
chRPar == 41
chStar == 42
chPlus == 43
chOpt == 63
chBar == 124
chBackslash == 92
chLt == 60
chGt == 62
chBang == 33
chEq == 61

(* Operator ids of parsing._operators *)
opConcat == 0
opUnion == 1
opStar == 2
opPlus == 3
opOpt == 4
opLPar == 5
opRPar == 6

inf == 1000000

----------------------------------------------------------------------------
(* Generic helpers *)

Max(S) == CHOOSE x \in S : \A y \in S : y <= x

Min(S) == CHOOSE x \in S : \A y \in S : x <= y

Range(f) == {f[i] : i \in DOMAIN f}

Perms(S) == {f \in [1..Cardinality(S) -> S] : Range(f) = S}

Strings(S, n) == UNION {[1..k -> S] : k \in 0..n}

RECURSIVE SortedSeq(_)
SortedSeq(S) == IF S = {} THEN <<>> ELSE LET m == Min(S) IN <<m>> \o SortedSeq(S \ {m})

RECURSIVE SetToSeq(_)
SetToSeq(S) == IF S = {} THEN <<>> ELSE LET m == CHOOSE x \in S : TRUE IN <<m>> \o SetToSeq(S \ {m})

Str(s) == [kind |-> "str", val |-> s]

Tup(t) == [kind |-> "tuple", val |-> t]

Eps == Str(<<>>)

Sym(c) == Str(<<c>>)

Symbols == {Sym(chA), Sym(chB)}

----------------------------------------------------------------------------
(* nfa.NFA *)

NFA(states, alphabet, transitions, start_state, final_state) ==
  [states |-> states, alphabet |-> alphabet, transitions |-> transitions,
   start_state |-> start_state, final_state |-> final_state]

NFAValid_start_only(states, start_state, final_state) ==
  start_state \in states

NFAValid(states, start_state, final_state) ==
  start_state \in states /\ final_state \in states

NoNfa == NFA({}, {}, {}, 0, 0)

NoCall == [op |-> "none", state |-> 0, safe |-> FALSE]

concat(self, other) ==
  LET max_s == Max(self.states)
      min_o == Min(other.states)
      corr == max_s - min_o + 1
      ren(state) == IF state = other.start_state THEN self.final_state ELSE state + corr
  IN NFA(self.states \cup {state + corr : state \in other.states \ {other.start_state}},
         self.alphabet \cup other.alphabet,
         self.transitions \cup {<<ren(t[1]), t[2], ren(t[3])>> : t \in other.transitions},
         self.start_state,
         other.final_state + corr)

union(self, other) ==
  LET max_s == Max(self.states)
      min_o == Min(other.states)
      corr == max_s - min_o + 1
      ren(state) == IF state = other.final_state THEN self.final_state
                    ELSE IF state = other.start_state THEN self.start_state
                    ELSE state + corr
  IN NFA(self.states \cup {state + corr : state \in other.states \ {other.start_state, other.final_state}},
         self.alphabet \cup other.alphabet,
         self.transitions \cup {<<ren(t[1]), t[2], ren(t[3])>> : t \in other.transitions},
         self.start_state,
         self.final_state)

\* star whose operand cannot be repeated
star_without_repeat(self) ==
  LET max_s == Max(self.states)
      start_state == max_s + 1
      final_state == max_s + 2
  IN NFA(self.states \cup {start_state, final_state},
         self.alphabet,
         self.transitions \cup {<<start_state, Eps, self.start_state>>, <<start_state, Eps, final_state>>,
                                <<self.final_state, Eps, final_state>>},
         start_state,
         final_state)

star(self) ==
  LET max_s == Max(self.states)
      start_state == max_s + 1
      final_state == max_s + 2
  IN NFA(self.states \cup {start_state, final_state},
         self.alphabet,
         self.transitions \cup {<<start_state, Eps, self.start_state>>, <<start_state, Eps, final_state>>,
                                <<self.final_state, Eps, self.start_state>>, <<self.final_state, Eps, final_state>>},
         start_state,
         final_state)

\* plus that loops from the old final state to the old start and adds no state
plus_reusing_terminals(self) ==
  [self EXCEPT !.transitions = @ \cup {<<self.final_state, Eps, self.start_state>>}]

plus(self) ==
  LET max_s == Max(self.states)
      start_state == max_s + 1
      final_state == max_s + 2
  IN NFA(self.states \cup {start_state, final_state},
         self.alphabet,
         self.transitions \cup {<<start_state, Eps, self.start_state>>,
                                <<self.final_state, Eps, self.start_state>>, <<self.final_state, Eps, final_state>>},
         start_state,
         final_state)

opt(self) ==
  [self EXCEPT !.transitions = @ \cup {<<self.start_state, Eps, self.final_state>>}]

RECURSIVE eps_worklist(_, _, _)
eps_worklist(self, worklist, retval) ==
  IF worklist = {} THEN retval
  ELSE LET curr == CHOOSE s \in worklist : TRUE
           rv == retval \cup {curr}
           more == {t[3] : t \in {u \in self.transitions : u[1] = curr /\ u[2] = Eps}} \ rv
       IN eps_worklist(self, (worklist \ {curr}) \cup more, rv)

eps_closure(self, state, include_state) ==
  eps_worklist(self,
               {t[3] : t \in {u \in self.transitions : u[1] = state /\ u[2] = Eps}},
               IF include_state THEN {state} ELSE {})

next_states(self, current_state, sym) ==
  IF sym \notin self.alphabet THEN {}
  ELSE LET from == {current_state} \cup eps_closure(self, current_state, FALSE)
       IN {t[3] : t \in {u \in self.transitions : u[1] \in from /\ u[2] = sym}}

RECURSIVE _accept(_, _, _, _)
_accept(self, str, start_index, current_state) ==
  IF start_index = Len(str)
  THEN current_state = self.final_state \/ self.final_state \in eps_closure(self, current_state, FALSE)
  ELSE \E state \in next_states(self, current_state, Sym(str[start_index + 1])) :
         _accept(self, str, start_index + 1, state)

accept(self, str) == _accept(self, str, 0, self.start_state)

----------------------------------------------------------------------------
(* dfa.DFA *)

DFA(states, alphabet, transitions, start_state, final_states) ==
  [states |-> states, alphabet |-> alphabet, transitions |-> transitions,
   start_state |-> start_state, final_states |-> final_states]

DFAValid(states, start_state, final_states) ==
  start_state \in states /\ final_states \subseteq states

NoDfa == DFA({}, {}, <<>>, 0, {})

RECURSIVE dfa_walk(_, _, _, _)
dfa_walk(self, str, i, current_state) ==
  IF i > Len(str) THEN current_state \in self.final_states
  ELSE IF <<current_state, Sym(str[i])>> \notin DOMAIN self.transitions THEN FALSE
  ELSE dfa_walk(self, str, i + 1, self.transitions[<<current_state, Sym(str[i])>>])

dfa_accept(self, str) == dfa_walk(self, str, 1, self.start_state)

to_nfa(self) ==
  LET final_state == Max(self.states) + 1
      transitions == {<<key[1], key[2], self.transitions[key]>> : key \in DOMAIN self.transitions}
                       \cup {<<state, Eps, final_state>> : state \in self.final_states}
  IN NFA(self.states \cup {final_state}, self.alphabet, transitions, self.start_state, final_state)

----------------------------------------------------------------------------
(* NFA.to_dfa: subset construction.  st is the loop state: state_list (the  *)
(* list of subsets), transitions (the dict) and worklist (a stack of list   *)
(* indices).                                                                *)

Put(f, k, v) == (k :> v) @@ f

IndexOf(list, x) == (CHOOSE j \in 1..Len(list) : list[j] = x) - 1

Pop(list) == SubSeq(list, 1, Len(list) - 1)

RECURSIVE to_dfa_syms(_, _, _, _, _, _)
to_dfa_syms(self, complete, order, i, current_state, st) ==
  IF i > Len(order) THEN st
  ELSE LET sym == order[i]
           result_states == {t[3] : t \in {u \in self.transitions :
                                             u[1] \in st.state_list[current_state + 1] /\ u[2] = sym}}
           next_state == UNION {eps_closure(self, state, TRUE) : state \in result_states}
       IN IF ~complete /\ next_state = {}
          THEN to_dfa_syms(self, complete, order, i + 1, current_state, st)
          ELSE IF next_state \in Range(st.state_list)
          THEN to_dfa_syms(self, complete, order, i + 1, current_state,
                 [st EXCEPT !.transitions = Put(@, <<current_state, sym>>, IndexOf(st.state_list, next_state))])
          ELSE to_dfa_syms(self, complete, order, i + 1, current_state,
                 [state_list |-> Append(st.state_list, next_state),
                  transitions |-> Put(st.transitions, <<current_state, sym>>, Len(st.state_list)),
                  worklist |-> Append(st.worklist, Len(st.state_list))])

to_dfa_iteration_partial(self, complete, order, st) ==
  LET current_state == st.worklist[Len(st.worklist)]
  IN to_dfa_syms(self, FALSE, order, 1, current_state, [st EXCEPT !.worklist = Pop(@)])

(* One pass of the while loop: pop a list index and handle its subset. *)
to_dfa_iteration(self, complete, order, st) ==
  LET current_state == st.worklist[Len(st.worklist)]
      popped == [st EXCEPT !.worklist = Pop(@)]
  IN IF st.state_list[current_state + 1] = {}
     THEN [popped EXCEPT !.transitions =
             [k \in {<<current_state, sym>> : sym \in self.alphabet} |-> current_state] @@ @]
     ELSE to_dfa_syms(self, complete, order, 1, current_state, popped)

RECURSIVE to_dfa_loop(_, _, _, _)
to_dfa_loop(self, complete, order, st) ==
  IF st.worklist = <<>> THEN st
  ELSE to_dfa_loop(self, complete, order, to_dfa_iteration(self, complete, order, st))

(* The locals before the loop. *)
to_dfa_enter(self) ==
  [state_list |-> <<eps_closure(self, self.start_state, TRUE)>>,
   transitions |-> <<>>,
   worklist |-> <<0>>]

to_dfa_return_short(self, st) ==
  LET final_states == {i \in 0..(Len(st.state_list) - 1) : self.final_state \in st.state_list[i + 1]}
  IN DFA(0..(Len(st.state_list) - 2), self.alphabet, st.transitions, 0, final_states)

(* The return statement: the DFA built from the locals after the loop. *)
to_dfa_return(self, st) ==
  LET final_states == {i \in 0..(Len(st.state_list) - 1) : self.final_state \in st.state_list[i + 1]}
  IN DFA(0..(Len(st.state_list) - 1), self.alphabet, st.transitions, 0, final_states)

to_dfa(self, complete, order) ==
  to_dfa_return(self, to_dfa_loop(self, complete, order, to_dfa_enter(self)))

----------------------------------------------------------------------------
(* DFA.minimize: partition refinement.  st is the loop state: partitions    *)
(* (the list of cells), final_states (indices of final cells) and worklist  *)
(* (a stack of cell indices).                                               *)

RECURSIVE reachable(_, _)
reachable(self, seen) ==
  LET more == {self.transitions[k] : k \in {j \in DOMAIN self.transitions :
                                              j[1] \in seen /\ j[2] \in self.alphabet}} \ seen
  IN IF more = {} THEN seen ELSE reachable(self, seen \cup more)

InList(list, x) == \E j \in 1..Len(list) : list[j] = x

\* minimize that never puts a split block back on the worklist
split_worklist_dropped(worklist, index, new, to_curr, not_to_curr) == worklist

split_worklist(worklist, index, new, to_curr, not_to_curr) ==
  IF InList(worklist, index) \/ Cardinality(to_curr) > Cardinality(not_to_curr)
  THEN Append(worklist, new)
  ELSE Append(worklist, index)

\* minimize that never flags a split-off block as final
split_final_states_unflagged(final_states, index, new) == final_states

split_final_states(final_states, index, new) ==
  IF index \in final_states THEN final_states \cup {new} ELSE final_states

(* One pass of the loop over index: split partitions[index] by curr_part. *)
split_part(self, curr_part, sym, index, st) ==
  LET part == st.partitions[index + 1]
      to_curr == {state \in part : /\ <<state, sym>> \in DOMAIN self.transitions
                                   /\ self.transitions[<<state, sym>>] \in curr_part}
      not_to_curr == part \ to_curr
      new == Len(st.partitions)
  IN IF to_curr = {} \/ not_to_curr = {}
     THEN st
     ELSE [partitions |-> Append([st.partitions EXCEPT ![index + 1] = to_curr], not_to_curr),
           final_states |-> split_final_states(st.final_states, index, new),
           worklist |-> split_worklist(st.worklist, index, new, to_curr, not_to_curr)]

RECURSIVE split_parts(_, _, _, _, _, _)
split_parts(self, curr_part, sym, index, n, st) ==
  IF index >= n THEN st
  ELSE split_parts(self, curr_part, sym, index + 1, n, split_part(self, curr_part, sym, index, st))

RECURSIVE split_syms(_, _, _, _, _)
split_syms(self, curr_part, order, i, st) ==
  IF i > Len(order) THEN st
  ELSE split_syms(self, curr_part, order, i + 1,
         split_parts(self, curr_part, order[i], 0, Len(st.partitions), st))

RECURSIVE refine(_, _, _)
refine(self, order, st) ==
  IF st.worklist = <<>> THEN st
  ELSE LET curr_part == st.partitions[st.worklist[Len(st.worklist)] + 1]
       IN refine(self, order, split_syms(self, curr_part, order, 1, [st EXCEPT !.worklist = Pop(@)]))

\* minimize that lifts a transition to the old target state, not to its block
lift_transitions_unmapped(self, partitions, state_map) ==
  LET keys == {<<index, sym>> \in (0..(Len(partitions) - 1)) \X self.alphabet :
                 \E state \in partitions[index + 1] : <<state, sym>> \in DOMAIN self.transitions}
      last(k) == Max({state \in partitions[k[1] + 1] : <<state, k[2]>> \in DOMAIN self.transitions})
  IN [k \in keys |-> self.transitions[<<last(k), k[2]>>]]

lift_transitions(self, partitions, state_map) ==
  LET keys == {<<index, sym>> \in (0..(Len(partitions) - 1)) \X self.alphabet :
                 \E state \in partitions[index + 1] : <<state, sym>> \in DOMAIN self.transitions}
      last(k) == Max({state \in partitions[k[1] + 1] : <<state, k[2]>> \in DOMAIN self.transitions})
  IN [k \in keys |-> state_map[self.transitions[<<last(k), k[2]>>]]]

(* The locals before the refinement loop, when a final state is reachable. *)
minimize_enter(self) ==
  LET reach == reachable(self, {self.start_state})
      reachable_finals == reach \cap self.final_states
      reachable_states == reach \ self.final_states
      partitions0 == IF reachable_states = {} THEN <<reachable_finals>>
                     ELSE <<reachable_finals, reachable_states>>
  IN [partitions |-> partitions0,
      final_states |-> {0},
      worklist |-> [j \in 1..Len(partitions0) |-> j - 1]]

(* The DFA built from the locals after the refinement loop. *)
minimize_return(self, st) ==
  LET partitions == st.partitions
      state_map == [state \in reachable(self, {self.start_state}) |->
                      (CHOOSE j \in 1..Len(partitions) : state \in partitions[j]) - 1]
  IN DFA(0..(Len(partitions) - 1), self.alphabet,
         lift_transitions(self, partitions, state_map),
         state_map[self.start_state], st.final_states)

(* The early return when no final state is reachable. *)
minimize_empty(self) == DFA({0}, self.alphabet, <<>>, 0, {})

minimize(self, order) ==
  IF reachable(self, {self.start_state}) \cap self.final_states = {}
  THEN minimize_empty(self)
  ELSE minimize_return(self, refine(self, order, minimize_enter(self)))

----------------------------------------------------------------------------
(* parsing.construct_nfa: one step of the evaluation loop per token *)

literal_nfa(sym) == NFA({0, 1}, {sym}, {<<0, sym, 1>>}, 0, 1)

num_args(op) ==
  IF op \in {opConcat, opUnion} THEN 2 ELSE IF op \in {opStar, opPlus, opOpt} THEN 1 ELSE 0

apply_op(op, stk) ==
  LET n == Len(stk)
  IN CASE op = opConcat -> Append(SubSeq(stk, 1, n - 2), concat(stk[n - 1], stk[n]))
       [] op = opUnion -> Append(SubSeq(stk, 1, n - 2), union(stk[n - 1], stk[n]))
       [] op = opStar -> Append(SubSeq(stk, 1, n - 1), star(stk[n]))
       [] op = opPlus -> Append(SubSeq(stk, 1, n - 1), plus(stk[n]))
       [] op = opOpt -> Append(SubSeq(stk, 1, n - 1), opt(stk[n]))
       [] OTHER -> stk

----------------------------------------------------------------------------
(* The regex pipeline of test.py: construct_nfa, to_dfa, minimize *)

Operators == {opConcat, opUnion, opStar, opPlus, opOpt}

Init ==
  /\ pc = "construct"
  /\ stack = <<>>
  /\ steps = 0
  /\ nfa = NoNfa
  /\ dfa = NoDfa
  /\ string = <<>>
  /\ table = <<>>
  /\ result = "none"
  /\ call = NoCall
  /\ old = NoNfa
  /\ olddfa = NoDfa
  /\ RestInit

PushLiteral ==
  /\ pc = "construct"
  /\ steps < MaxPostfix
  /\ \E sym \in Symbols : stack' = Append(stack, literal_nfa(sym))
  /\ steps' = steps + 1
  /\ UNCHANGED <<pc, nfa, dfa, string, table, result, call, old, olddfa>>
  /\ UNCHANGED rest

ApplyOperator ==
  /\ pc = "construct"
  /\ steps < MaxPostfix
  /\ \E op \in Operators :
       IF Len(stack) >= num_args(op)
       THEN stack' = apply_op(op, stack) /\ UNCHANGED <<pc, result>>
       ELSE stack' = stack /\ pc' = "error" /\ result' = "IndexError"
  /\ steps' = steps + 1
  /\ UNCHANGED <<nfa, dfa, string, table, call, old, olddfa>>
  /\ UNCHANGED rest

Construct ==
  /\ pc = "construct"
  /\ IF steps = 0
     THEN nfa' = NFA({0}, {}, {}, 0, 0) /\ pc' = "nfa" /\ UNCHANGED result
     ELSE IF Len(stack) # 1
     THEN pc' = "error" /\ result' = "ValueError" /\ UNCHANGED nfa
     ELSE nfa' = stack[1] /\ pc' = "nfa" /\ UNCHANGED result
  /\ UNCHANGED <<stack, steps, dfa, string, table, call, old, olddfa>>
  /\ UNCHANGED rest

ToDfa ==
  /\ pc = "nfa"
  /\ \E complete \in BOOLEAN, order \in Perms(nfa.alphabet) :
       dfa' = to_dfa(nfa, complete, order)
  /\ pc' = "dfa"
  /\ UNCHANGED <<stack, steps, nfa, string, table, result, call, old, olddfa>>
  /\ UNCHANGED rest

Minimize ==
  /\ pc \in {"dfa", "mdfa"}
  /\ \E order \in Perms(dfa.alphabet) : dfa' = minimize(dfa, order)
  /\ olddfa' = dfa
  /\ pc' = IF pc = "dfa" THEN "mdfa" ELSE "mmdfa"
  /\ UNCHANGED <<stack, steps, nfa, string, table, result, call, old>>
  /\ UNCHANGED rest

Next == PushLiteral \/ ApplyOperator \/ Construct \/ ToDfa \/ Minimize

Spec == Init /\ [][Next]_vars

Chars == {chA, chB}

\* C1: the NFA compiled from a regex accepts a string exactly when the
\* minimized DFA minimize(to_dfa(NFA(R))) accepts it, for every string over
\* the alphabet up to length MaxStrLen.
C1_NfaEqualsMinDfa ==
  pc = "mdfa" => \A s \in Strings(Chars, MaxStrLen) : accept(nfa, s) = dfa_accept(dfa, s)

C1_Witness ==
  /\ pc = "mdfa"
  /\ Cardinality(olddfa.states) > Cardinality(dfa.states)
  /\ \E s \in Strings(Chars, MaxStrLen) : Len(s) >= 2 /\ accept(nfa, s) /\ dfa_accept(dfa, s)
  /\ \E s \in Strings(Chars, MaxStrLen) : ~accept(nfa, s)

----------------------------------------------------------------------------
(* minimize on any DFA the constructor accepts: states 0..n-1, a partial    *)
(* transition function over Symbols, any start state, any final states.     *)

PartialFunctions(D, R) == UNION {[K -> R] : K \in SUBSET D}

AllDFAs(n) ==
  {DFA(0..(n - 1), Symbols, transitions, start_state, final_states) :
     transitions \in PartialFunctions((0..(n - 1)) \X Symbols, 0..(n - 1)),
     start_state \in 0..(n - 1),
     final_states \in SUBSET (0..(n - 1))}

InitDfa ==
  /\ pc = "dfa"
  /\ stack = <<>>
  /\ steps = 0
  /\ nfa = NoNfa
  /\ \E n \in 1..MaxDfaStates :
       \E K \in SUBSET ((0..(n - 1)) \X Symbols) :
         \E transitions \in [K -> 0..(n - 1)], start_state \in 0..(n - 1),
            final_states \in SUBSET (0..(n - 1)) :
           dfa = DFA(0..(n - 1), Symbols, transitions, start_state, final_states)
  /\ string = <<>>
  /\ table = <<>>
  /\ result = "none"
  /\ call = NoCall
  /\ old = NoNfa
  /\ olddfa = NoDfa
  /\ RestInit

NextDfa == Minimize

SpecDfa == InitDfa /\ [][NextDfa]_vars

(* Language equality of two DFAs, exactly: no pair of states reachable      *)
(* together (Dead stands for a missing transition) disagrees on finality.   *)

Dead == 0 - 1

dfa_step(self, state, sym) ==
  IF <<state, sym>> \in DOMAIN self.transitions THEN self.transitions[<<state, sym>>] ELSE Dead

RECURSIVE pair_closure(_, _, _)
pair_closure(D, E, seen) ==
  LET more == {<<dfa_step(D, pq[1], sym), dfa_step(E, pq[2], sym)>> :
                 pq \in seen, sym \in D.alphabet \cup E.alphabet} \ seen
  IN IF more = {} THEN seen ELSE pair_closure(D, E, seen \cup more)

SameLanguage(D, E) ==
  \A pq \in pair_closure(D, E, {<<D.start_state, E.start_state>>}) :
     (pq[1] \in D.final_states) = (pq[2] \in E.final_states)

\* C3: minimization minimality: no DFA that accepts the same language as D
\* has fewer states than minimize(D).
C3_Minimal ==
  pc = "mdfa" =>
    \A n \in 1..(Cardinality(dfa.states) - 1) : \A E \in AllDFAs(n) : ~SameLanguage(dfa, E)

\* C4: minimization idempotence: minimize(minimize(D)) has the same number
\* of states as minimize(D).
C4_Idempotent ==
  pc = "mmdfa" => Cardinality(dfa.states) = Cardinality(olddfa.states)

C4_Witness ==
  /\ pc = "mmdfa"
  /\ Cardinality(dfa.states) >= 2
  /\ dfa.final_states # dfa.states

\* minimize preserves the language of any DFA (used with C3 and C4).
MinimizeSameLanguage ==
  pc \in {"mdfa", "mmdfa"} => SameLanguage(olddfa, dfa)

----------------------------------------------------------------------------
(* nfa._default_rip_combiner, nfa._default_union_combiner: labels as str.   *)
(* A set of labels is iterated in the order SetToSeq gives.                 *)

RECURSIVE Join(_, _)
Join(sep, strs) ==
  IF strs = <<>> THEN <<>>
  ELSE IF Len(strs) = 1 THEN strs[1]
  ELSE strs[1] \o sep \o Join(sep, Tail(strs))

_default_rip_combiner(a, b, c) ==
  LET pre == a.val
      post == c.val
      repeat == Join(<<chBar>>, [i \in 1..Len(b) |-> b[i].val])
      loop_pre == pre = repeat
      loop_post == post = repeat
      looped(q) == <<chLPar>> \o repeat \o <<chRPar, q>>
  IN Str(IF loop_pre /\ loop_post THEN (IF repeat = <<>> THEN <<>> ELSE looped(chPlus))
         ELSE IF loop_pre THEN (IF repeat = <<>> THEN post ELSE looped(chPlus) \o post)
         ELSE IF loop_post THEN (IF repeat = <<>> THEN pre ELSE pre \o looped(chPlus))
         ELSE pre \o (IF repeat = <<>> THEN <<>> ELSE looped(chStar)) \o post)

RECURSIVE default_union_loop(_, _, _)
default_union_loop(syms, new_sym, optional) ==
  IF syms = <<>> THEN [new_sym |-> new_sym, optional |-> optional]
  ELSE LET sym == syms[1]
       IN IF sym = Eps THEN default_union_loop(Tail(syms), new_sym, TRUE)
          ELSE IF new_sym = <<>> THEN default_union_loop(Tail(syms), sym.val, optional)
          ELSE default_union_loop(Tail(syms), new_sym \o <<chBar>> \o sym.val, optional)

\* union combiner that keeps the last symbol only
_default_union_combiner_last(syms) == syms[Len(syms)]

_default_union_combiner(syms) ==
  LET r == default_union_loop(syms, <<>>, FALSE)
  IN IF r.optional /\ r.new_sym # <<>>
     THEN Str(<<chLPar>> \o r.new_sym \o <<chRPar, chOpt>>)
     ELSE Str(r.new_sym)

----------------------------------------------------------------------------
(* parsing._op_if_nonempty, postfix_rip_combiner, postfix_union_combiner:   *)
(* labels as tuples of postfix tokens.  A token is a literal character or   *)
(* an operator id; a str label of one character is the token of that        *)
(* character.                                                               *)

commutative(op) == op = opUnion

\* rewrite table that keeps the outer quantifier
_duplicate_quantifiers_outer(p, q) == q

_duplicate_quantifiers(p, q) ==
  CASE p = opStar /\ q = opStar -> opStar
    [] p = opStar /\ q = opPlus -> opStar
    [] p = opStar /\ q = opOpt -> opStar
    [] p = opPlus /\ q = opStar -> opStar
    [] p = opPlus /\ q = opPlus -> opPlus
    [] p = opPlus /\ q = opOpt -> opStar
    [] p = opOpt /\ q = opStar -> opStar
    [] p = opOpt /\ q = opPlus -> opStar
    [] p = opOpt /\ q = opOpt -> opOpt

IsQuantifier(tok) == tok \in {opStar, opPlus, opOpt}

RECURSIVE sorted_by_len(_)
sorted_by_len(args) ==
  IF args = <<>> THEN <<>>
  ELSE LET m == Min({Len(args[i]) : i \in 1..Len(args)})
           j == Min({i \in 1..Len(args) : Len(args[i]) = m})
       IN <<args[j]>> \o sorted_by_len(SubSeq(args, 1, j - 1) \o SubSeq(args, j + 1, Len(args)))

RECURSIVE Flatten(_)
Flatten(lists) == IF lists = <<>> THEN <<>> ELSE lists[1] \o Flatten(Tail(lists))

NonEmpty(arg) == Len(arg) > 0

Repeat(x, n) == [i \in 1..n |-> x]

_op_if_nonempty(op, args) ==
  LET ordered == IF commutative(op) THEN sorted_by_len(args) ELSE args
      operands == SelectSeq(ordered, NonEmpty)
      rv == Flatten(operands)
      num_operands == Len(operands)
      num_operators == IF num_args(op) = 1 THEN 1 ELSE (num_operands - 1) \div (num_args(op) - 1)
  IN IF num_operands = 0 THEN <<>>
     ELSE IF IsQuantifier(rv[Len(rv)]) /\ IsQuantifier(op)
     THEN Pop(rv) \o Repeat(_duplicate_quantifiers(rv[Len(rv)], op), num_operators)
     ELSE rv \o Repeat(op, num_operators)

tokens(label) ==
  IF label.kind = "tuple" THEN label.val
  ELSE IF label = Eps THEN <<>>
  ELSE <<label.val[1]>>

RECURSIVE rip_repeat(_, _)
rip_repeat(star_, repeat) ==
  IF star_ = <<>> THEN repeat
  ELSE rip_repeat(Tail(star_), _op_if_nonempty(opUnion, <<tokens(star_[1]), repeat>>))

postfix_rip_combiner(pre_t, star_, post_t) ==
  LET pre == tokens(pre_t)
      post == tokens(post_t)
      repeat == rip_repeat(star_, <<>>)
      loop_pre == pre = repeat
      loop_post == post = repeat
  IN Tup(IF loop_pre /\ loop_post THEN _op_if_nonempty(opPlus, <<repeat>>)
         ELSE IF loop_pre THEN _op_if_nonempty(opConcat, <<_op_if_nonempty(opPlus, <<repeat>>), post>>)
         ELSE IF loop_post THEN _op_if_nonempty(opConcat, <<pre, _op_if_nonempty(opPlus, <<repeat>>)>>)
         ELSE _op_if_nonempty(opConcat, <<pre, _op_if_nonempty(opStar, <<repeat>>), post>>))

RECURSIVE postfix_union_loop(_, _, _)
postfix_union_loop(options, union_, optional) ==
  IF options = <<>> THEN [union_ |-> union_, optional |-> optional]
  ELSE LET loop == options[1]
       IN IF loop = Tup(<<>>) \/ loop = Eps
          THEN postfix_union_loop(Tail(options), union_, TRUE)
          ELSE postfix_union_loop(Tail(options),
                                  _op_if_nonempty(opUnion, <<union_, tokens(loop)>>), optional)

postfix_union_combiner(options) ==
  LET r == postfix_union_loop(options, <<>>, FALSE)
  IN Tup(IF r.optional THEN _op_if_nonempty(opOpt, <<r.union_>>) ELSE r.union_)

----------------------------------------------------------------------------
(* NFA.rip and NFA.union_edges.  combiner is "default" or "postfix".  rip    *)
(* returns [kind, nfa]: kind "ValueError" (raised), "None" (no result) or   *)
(* "ok" with the receiver after the call.  Every label other than '' is     *)
(* taken to be in the alphabet already, so the alphabet after rip does not  *)
(* depend on the order in which the dict is walked.                         *)

rip_combine(combiner, a, b, c) ==
  IF combiner = "postfix" THEN postfix_rip_combiner(a, b, c) ELSE _default_rip_combiner(a, b, c)

union_combine(combiner, syms) ==
  IF combiner = "postfix" THEN postfix_union_combiner(syms) ELSE _default_union_combiner(syms)

\* rip that refuses the start state only
is_terminal_start_only(self, state) == state = self.start_state

is_terminal(self, state) == state = self.start_state \/ state = self.final_state

\* rip that removes nothing
rip_without_removal(self, state, safe, combiner) ==
  IF is_terminal(self, state)
  THEN [kind |-> "ValueError", nfa |-> self]
  ELSE [kind |-> "ok", nfa |-> self]

rip(self, state, safe, combiner) ==
  IF is_terminal(self, state)
  THEN [kind |-> "ValueError", nfa |-> self]
  ELSE LET outgoing_transitions == {t \in self.transitions : t[1] = state /\ t[3] # state}
           self_loops == {t[2] : t \in {u \in self.transitions :
                                          u[1] = state /\ u[3] = state /\ u[2] # Eps}}
           incoming == {t \in self.transitions : t[1] # state /\ t[3] = state}
           kept == {t \in self.transitions : t[1] # state /\ t[3] # state}
           loops == SetToSeq(self_loops)
       IN IF safe
          THEN IF \E t \in incoming, o \in outgoing_transitions : t[2] # Eps /\ o[2] # Eps
               THEN [kind |-> "None", nfa |-> self]
               ELSE [kind |-> "ok",
                     nfa |-> [self EXCEPT
                       !.states = @ \ {state},
                       !.transitions = kept \cup
                         {<<t[1], IF t[2] = Eps THEN o[2] ELSE t[2], o[3]>> :
                            t \in incoming, o \in outgoing_transitions}]]
          ELSE LET added == {<<t[1], rip_combine(combiner, t[2], loops, o[2]), o[3]>> :
                               t \in incoming, o \in outgoing_transitions}
               IN [kind |-> "ok",
                   nfa |-> [self EXCEPT
                     !.states = @ \ {state},
                     !.alphabet = @ \cup ({t[2] : t \in added} \ {Eps}),
                     !.transitions = kept \cup added]]

union_edges(self, combiner) ==
  LET edges == {<<t[1], t[3]>> : t \in self.transitions}
      syms(edge) == SetToSeq({t[2] : t \in {u \in self.transitions : u[1] = edge[1] /\ u[3] = edge[2]}})
      transitions == {<<edge[1], union_combine(combiner, syms(edge)), edge[2]>> : edge \in edges}
  IN [self EXCEPT !.alphabet = @ \cup ({t[2] : t \in transitions} \ {Eps}),
                  !.transitions = transitions]

\* union_edges that combines every label on its own
union_edges_in_apart(self, combiner, order) ==
  LET transitions == {<<t[1], union_combine(combiner, <<t[2]>>), t[3]>> : t \in self.transitions}
  IN [self EXCEPT !.alphabet = @ \cup ({t[2] : t \in transitions} \ {Eps}),
                  !.transitions = transitions]

(* union_edges when the set of symbols of each edge is iterated in the      *)
(* order of the sequence order, a permutation of the labels of self.        *)
union_edges_in(self, combiner, order) ==
  LET edges == {<<t[1], t[3]>> : t \in self.transitions}
      on_edge(edge, sym) == <<edge[1], sym, edge[2]>> \in self.transitions
      syms(edge) == SelectSeq(order, LAMBDA sym : on_edge(edge, sym))
      transitions == {<<edge[1], union_combine(combiner, syms(edge)), edge[2]>> : edge \in edges}
  IN [self EXCEPT !.alphabet = @ \cup ({t[2] : t \in transitions} \ {Eps}),
                  !.transitions = transitions]

----------------------------------------------------------------------------
(* Any NFA the constructor accepts, within the bounds: states 0..n-1, at    *)
(* most MaxEdges transitions labelled '' or a symbol, any start and final.  *)

RECURSIVE SubsetsUpTo(_, _)
SubsetsUpTo(S, k) ==
  IF k = 0 THEN {{}}
  ELSE LET P == SubsetsUpTo(S, k - 1) IN P \cup {T \cup {x} : T \in P, x \in S}

Labels == {Eps} \cup Symbols

IsSmallNfa(a, n, e) ==
  \E transitions \in SubsetsUpTo((0..(n - 1)) \X Labels \X (0..(n - 1)), e) :
    \E start_state \in 0..(n - 1), final_state \in 0..(n - 1) :
      a = NFA(0..(n - 1), Symbols, transitions, start_state, final_state)

----------------------------------------------------------------------------
(* State elimination, the loop of test.py: union_edges, then rip of a       *)
(* non-terminal state followed by union_edges while more than two states    *)
(* remain.  The state to rip is a free choice.                              *)

InitElim ==
  /\ pc = "elim_start"
  /\ stack = <<>>
  /\ steps = 0
  /\ \E n \in 2..MaxNfaStates : IsSmallNfa(nfa, n, MaxEdges)
  /\ dfa = NoDfa
  /\ string = <<>>
  /\ table = <<>>
  /\ result = "none"
  /\ call = NoCall
  /\ old = nfa
  /\ olddfa = NoDfa
  /\ RestInit

ElimUnionEdges ==
  /\ pc = "elim_start"
  /\ nfa' = union_edges(nfa, "postfix")
  /\ pc' = "elim"
  /\ UNCHANGED <<stack, steps, dfa, string, table, result, call, old, olddfa>>
  /\ UNCHANGED rest

ElimRip ==
  /\ pc = "elim"
  /\ Cardinality(nfa.states) > 2
  /\ \E rip_state \in nfa.states \ {nfa.start_state, nfa.final_state} :
       nfa' = union_edges(rip(nfa, rip_state, FALSE, "postfix").nfa, "postfix")
  /\ UNCHANGED <<pc, stack, steps, dfa, string, table, result, call, old, olddfa>>
  /\ UNCHANGED rest

ElimDone ==
  /\ pc = "elim"
  /\ Cardinality(nfa.states) <= 2
  /\ pc' = "eliminated"
  /\ UNCHANGED <<stack, steps, nfa, dfa, string, table, result, call, old, olddfa>>
  /\ UNCHANGED rest

NextElim == ElimUnionEdges \/ ElimRip \/ ElimDone

SpecElim == InitElim /\ [][NextElim]_vars

(* The strings of at most MaxStrLen characters that a postfix regular       *)
(* expression denotes (what re.fullmatch decides in test.py).               *)

Short(S) == {s \in S : Len(s) <= MaxStrLen}

LangConcat(A, B) == Short({u \o v : u \in A, v \in B})

RECURSIVE LangStar(_, _)
LangStar(A, acc) ==
  LET more == LangConcat(acc, A) \ acc
  IN IF more = {} THEN acc ELSE LangStar(A, acc \cup more)

RECURSIVE PostfixLang(_, _)
PostfixLang(toks, stk) ==
  IF toks = <<>> THEN stk
  ELSE LET tok == toks[1]
           n == Len(stk)
       IN CASE tok = opConcat ->
                 PostfixLang(Tail(toks), Append(SubSeq(stk, 1, n - 2), LangConcat(stk[n - 1], stk[n])))
            [] tok = opUnion ->
                 PostfixLang(Tail(toks), Append(SubSeq(stk, 1, n - 2), stk[n - 1] \cup stk[n]))
            [] tok = opStar ->
                 PostfixLang(Tail(toks), Append(SubSeq(stk, 1, n - 1), LangStar(stk[n], {<<>>})))
            [] tok = opPlus ->
                 PostfixLang(Tail(toks), Append(SubSeq(stk, 1, n - 1),
                                                LangConcat(stk[n], LangStar(stk[n], {<<>>}))))
            [] tok = opOpt ->
                 PostfixLang(Tail(toks), Append(SubSeq(stk, 1, n - 1), stk[n] \cup {<<>>}))
            [] OTHER -> PostfixLang(Tail(toks), Append(stk, {<<tok>>}))

LabelLang(label) ==
  IF tokens(label) = <<>> THEN {<<>>} ELSE PostfixLang(tokens(label), <<>>)[1]

NfaLang(a) == {s \in Strings(Chars, MaxStrLen) : accept(a, s)}

\* The shape in which test.py hands an automaton to the elimination loop:
\* distinct start and final, nothing enters start, nothing leaves final.
Terminals(a) ==
  /\ a.start_state # a.final_state
  /\ \A t \in a.transitions : t[3] # a.start_state /\ t[1] # a.final_state

\* C2: state elimination correctness: once only start and final remain, the
\* automaton has a single edge, from start to final, whose label denotes
\* exactly the language of the automaton the loop started from (on all
\* strings up to MaxStrLen).  Stated for automata with separate terminals
\* and a non-empty language, the shape test.py prepares.
C2_EliminationCorrect ==
  (pc = "eliminated" /\ Terminals(old) /\ NfaLang(old) # {}) =>
     /\ nfa.states = {nfa.start_state, nfa.final_state}
     /\ \E label \in {t[2] : t \in nfa.transitions} :
          /\ nfa.transitions = {<<nfa.start_state, label, nfa.final_state>>}
          /\ LabelLang(label) = NfaLang(old)

----------------------------------------------------------------------------
(* The public NFA operations applied in any order to automata the code      *)
(* constructs: the literal automata of construct_nfa, its automaton for the *)
(* empty program, and the automaton empty of test.py.                       *)

Operands ==
  {literal_nfa(Sym(chA)), literal_nfa(Sym(chB)),
   NFA({0}, {}, {}, 0, 0),
   NFA({0, 1}, {}, {<<0, Eps, 1>>}, 0, 1)}

Call(op, state, safe) == [op |-> op, state |-> state, safe |-> safe]

InitNfa ==
  /\ pc = "ops"
  /\ stack = <<>>
  /\ steps = 0
  /\ nfa \in Operands
  /\ dfa = NoDfa
  /\ string = <<>>
  /\ table = <<>>
  /\ result = "none"
  /\ call = NoCall
  /\ old = nfa
  /\ olddfa = NoDfa
  /\ RestInit

Applied(op, state, safe, after, kind) ==
  /\ nfa' = after
  /\ result' = kind
  /\ call' = Call(op, state, safe)
  /\ old' = nfa
  /\ steps' = steps + 1
  /\ UNCHANGED <<pc, stack, dfa, string, table, olddfa>>
  /\ UNCHANGED rest

Concat ==
  /\ pc = "ops" /\ steps < MaxOps
  /\ \E other \in Operands : Applied("concat", 0, FALSE, concat(nfa, other), "ok")

Union ==
  /\ pc = "ops" /\ steps < MaxOps
  /\ \E other \in Operands : Applied("union", 0, FALSE, union(nfa, other), "ok")

Star ==
  /\ pc = "ops" /\ steps < MaxOps
  /\ Applied("star", 0, FALSE, star(nfa), "ok")

Plus ==
  /\ pc = "ops" /\ steps < MaxOps
  /\ Applied("plus", 0, FALSE, plus(nfa), "ok")

Opt ==
  /\ pc = "ops" /\ steps < MaxOps
  /\ Applied("opt", 0, FALSE, opt(nfa), "ok")

Rip ==
  /\ pc = "ops" /\ steps < MaxOps
  /\ \E state \in nfa.states, safe \in BOOLEAN :
       LET r == rip(nfa, state, safe, "default")
       IN Applied("rip", state, safe, r.nfa, r.kind)

UnionEdges ==
  /\ pc = "ops" /\ steps < MaxOps
  /\ Applied("union_edges", 0, FALSE, union_edges(nfa, "default"), "ok")

NextNfa == Concat \/ Union \/ Star \/ Plus \/ Opt \/ Rip \/ UnionEdges

SpecNfa == InitNfa /\ [][NextNfa]_vars

Consistent(a) ==
  /\ a.start_state \in a.states
  /\ a.final_state \in a.states
  /\ \A t \in a.transitions : t[1] \in a.states /\ t[3] \in a.states

InEdges(a, q) == {t \in a.transitions : t[3] = q}

OutEdges(a, q) == {t \in a.transitions : t[1] = q}

RipSafeCalled ==
  /\ call.op = "rip" /\ call.safe
  /\ call.state \notin {old.start_state, old.final_state}
  /\ Consistent(old)

\* C9: rip safety: rip(q, safe=True) returns None when q has both an
\* incoming non-epsilon edge and an outgoing non-epsilon edge, and returns a
\* valid automaton without q when all edges on one side of q are epsilon.
C9_RipSafety ==
  RipSafeCalled =>
    LET q == call.state
        in_eps == \A t \in InEdges(old, q) : t[2] = Eps
        out_eps == \A t \in OutEdges(old, q) : t[2] = Eps
    IN /\ (~in_eps /\ ~out_eps) => result = "None"
       /\ (in_eps \/ out_eps) =>
            (result = "ok" /\ Consistent(nfa) /\ q \notin nfa.states)

\* The same with the edges of q to and from the other states only (its
\* self-loops left out): this is what rip(q, safe=True) does.
RipSafetyOtherStates ==
  RipSafeCalled =>
    LET q == call.state
        in_eps == \A t \in InEdges(old, q) : t[1] = q \/ t[2] = Eps
        out_eps == \A t \in OutEdges(old, q) : t[3] = q \/ t[2] = Eps
    IN /\ (~in_eps /\ ~out_eps) => result = "None"
       /\ (in_eps \/ out_eps) =>
            (result = "ok" /\ Consistent(nfa) /\ q \notin nfa.states)

\* C10: after any sequence of public NFA operations the automaton is
\* consistent: start and final are states, and so are the source and the
\* destination of every transition.
C10_Consistent ==
  pc = "ops" => Consistent(nfa)

----------------------------------------------------------------------------
(* distance.distance_table and distance.update_nfa.  math.inf is inf, with  *)
(* inf + x = inf - x = inf.  A set of states is walked in increasing order  *)
(* (the order of a CPython set of small ints).  path_lengths maps a pair of *)
(* states to <<symbol edges, epsilon edges>>; a table entry is              *)
(* <<cost, source state>>.                                                  *)

Add(x, y) == IF x >= inf \/ y >= inf THEN inf ELSE x + y

Sub(x, b) == IF x >= inf THEN inf ELSE x - (IF b THEN 1 ELSE 0)

LexLess(x, y) == x[1] < y[1] \/ (x[1] = y[1] /\ x[2] < y[2])

LexMin(x, y) == IF LexLess(y, x) THEN y ELSE x

initial_paths(self) ==
  [p \in self.states \X self.states |->
     IF <<p[1], Eps, p[2]>> \in self.transitions THEN <<0, 1>>
     ELSE IF \E sym \in self.alphabet : <<p[1], sym, p[2]>> \in self.transitions THEN <<1, 0>>
     ELSE <<inf, inf>>]

initial_included(self) ==
  [q \in self.states \X self.states \X self.alphabet |->
     /\ <<q[1], Eps, q[2]>> \notin self.transitions
     /\ <<q[1], q[3], q[2]>> \in self.transitions]

relax(self, fw, k) ==
  LET path_lengths == fw.path_lengths
      included_syms == fw.included_syms
      thru_k(p) == <<Add(path_lengths[<<p[1], k>>][1], path_lengths[<<k, p[2]>>][1]),
                     Add(path_lengths[<<p[1], k>>][2], path_lengths[<<k, p[2]>>][2])>>
  IN [path_lengths |->
        [p \in self.states \X self.states |-> LexMin(path_lengths[p], thru_k(p))],
      included_syms |->
        [q \in self.states \X self.states \X self.alphabet |->
           LET current == path_lengths[<<q[1], q[2]>>]
               thru == thru_k(<<q[1], q[2]>>)
               direct == included_syms[q]
               via == included_syms[<<q[1], k, q[3]>>] \/ included_syms[<<k, q[2], q[3]>>]
           IN IF current[1] < thru[1] \/ (current[1] = inf /\ thru[1] = inf) THEN direct
              ELSE IF current[1] > thru[1] THEN via
              ELSE direct \/ via]]

RECURSIVE all_pairs(_, _, _)
all_pairs(self, fw, ks) ==
  IF ks = <<>> THEN fw ELSE all_pairs(self, relax(self, fw, ks[1]), Tail(ks))

edge_cost(self, fw, src, state, sym) ==
  IF fw.path_lengths[<<src, state>>][1] = 0 THEN 1
  ELSE Sub(fw.path_lengths[<<src, state>>][1],
           sym \in self.alphabet /\ fw.included_syms[<<src, state, sym>>])

min_val(self, fw, column, state, sym) ==
  LET cost(src) == Add(column[src][1], edge_cost(self, fw, src, state, sym))
      best == Min({cost(src) : src \in self.states})
  IN <<best, Min({src \in self.states : cost(src) = best})>>

RECURSIVE table_columns(_, _, _, _)
table_columns(self, fw, str, columns) ==
  IF Len(columns) = Len(str) + 1 THEN columns
  ELSE LET ln == Len(columns)
           sym == Sym(str[ln])
       IN table_columns(self, fw, str,
            Append(columns, [state \in self.states |-> min_val(self, fw, columns[ln], state, sym)]))

distance_table(self, str) ==
  LET fw == all_pairs(self,
                      [path_lengths |-> initial_paths(self), included_syms |-> initial_included(self)],
                      SortedSeq(self.states))
      first == [state \in self.states |->
                  <<IF state = self.start_state THEN 0
                    ELSE fw.path_lengths[<<self.start_state, state>>][1],
                    self.start_state>>]
      columns == table_columns(self, fw, str, <<first>>)
  IN [state \in self.states |-> [i \in 1..(Len(str) + 1) |-> columns[i][state]]]

RECURSIVE backtrack(_, _, _, _)
backtrack(tbl, str, i, curr_state) ==
  IF i < 0 THEN {}
  ELSE LET prev_state == tbl[curr_state][i + 1][2]
       IN {<<prev_state, IF i = 0 THEN Eps ELSE Sym(str[i]), curr_state>>}
            \cup backtrack(tbl, str, i - 1, prev_state)

\* update_nfa that assigns {curr_state} to the key instead of adding to its set
update_nfa_overwriting(self, str) ==
  LET tbl == distance_table(self, str)
      added == backtrack(tbl, str, Len(str), self.final_state)
      kept == {t \in self.transitions : ~\E u \in added : u[1] = t[1] /\ u[2] = t[2]}
      after == [self EXCEPT
                  !.alphabet = @ \cup {Sym(str[i]) : i \in 1..Len(str)},
                  !.transitions = kept \cup added]
  IN [kind |-> IF Len(str) = 0 THEN "IndexError" ELSE "ok", nfa |-> after, table |-> tbl]

update_nfa(self, str) ==
  LET tbl == distance_table(self, str)
      after == [self EXCEPT
                  !.alphabet = @ \cup {Sym(str[i]) : i \in 1..Len(str)},
                  !.transitions = @ \cup backtrack(tbl, str, Len(str), self.final_state)]
  IN [kind |-> IF Len(str) = 0 THEN "IndexError" ELSE "ok", nfa |-> after, table |-> tbl]

distance(tbl, a, str) == tbl[a.final_state][Len(str) + 1][1]

----------------------------------------------------------------------------
(* The approximate matcher on any small automaton and any short string *)

InitDist ==
  /\ pc = "dist"
  /\ stack = <<>>
  /\ steps = 0
  /\ \E n \in 1..MaxDistStates, alphabet \in SUBSET Symbols :
       \E transitions \in SubsetsUpTo((0..(n - 1)) \X ({Eps} \cup alphabet) \X (0..(n - 1)),
                                      MaxDistEdges) :
         \E start_state \in 0..(n - 1), final_state \in 0..(n - 1) :
           nfa = NFA(0..(n - 1), alphabet, transitions, start_state, final_state)
  /\ dfa = NoDfa
  /\ string = <<>>
  /\ table = <<>>
  /\ result = "none"
  /\ call = NoCall
  /\ old = nfa
  /\ olddfa = NoDfa
  /\ RestInit

DistanceTable ==
  /\ pc = "dist"
  /\ \E str \in Strings(Chars, MaxInput) :
       /\ string' = str
       /\ table' = distance_table(nfa, str)
  /\ pc' = "table"
  /\ result' = "ok"
  /\ UNCHANGED <<stack, steps, nfa, dfa, call, old, olddfa>>
  /\ UNCHANGED rest

UpdateNfa ==
  /\ pc = "dist"
  /\ \E str \in Strings(Chars, MaxInput) :
       LET r == update_nfa(nfa, str)
       IN /\ string' = str
          /\ table' = r.table
          /\ nfa' = r.nfa
          /\ result' = r.kind
  /\ old' = nfa
  /\ pc' = "updated"
  /\ UNCHANGED <<stack, steps, dfa, call, olddfa>>
  /\ UNCHANGED rest

NextDist == DistanceTable \/ UpdateNfa

SpecDist == InitDist /\ [][NextDist]_vars

(* The edit distance (substitutions, insertions, deletions) from a string   *)
(* to the nearest string the automaton accepts; inf when it accepts none.   *)
(* A nearest string is at most Max(Len(s), MaxDistStates) symbols longer   *)
(* than s, the distance to a shortest accepted string.                      *)

Min3(x, y, z) == Min({x, y, z})

RECURSIVE Levenshtein(_, _)
Levenshtein(s, w) ==
  IF s = <<>> THEN Len(w)
  ELSE IF w = <<>> THEN Len(s)
  ELSE Min3(Levenshtein(Tail(s), Tail(w)) + (IF s[1] = w[1] THEN 0 ELSE 1),
            Levenshtein(Tail(s), w) + 1,
            Levenshtein(s, Tail(w)) + 1)

Corrections(a, s) ==
  LET accepted == {w \in Strings(Chars, Len(s) + Max({Len(s), MaxDistStates})) : accept(a, w)}
  IN IF accepted = {} THEN inf ELSE Min({Levenshtein(s, w) : w \in accepted})

\* C5: the correction distance computed by distance_table, the cost stored
\* for the final state at position len(s), is the minimum number of symbol
\* substitutions, insertions and deletions that turn s into a string the
\* automaton accepts.
C5_DistanceIsEditDistance ==
  pc = "table" => distance(table, nfa, string) = Corrections(nfa, string)

\* C6: the correction distance computed by distance_table is 0 if and only
\* if the automaton accepts s.
C6_ZeroIffAccepted ==
  pc = "table" => ((distance(table, nfa, string) = 0) <=> accept(nfa, string))

\* C7: update_nfa(A, s) completes and afterwards A accepts s.
C7_UpdateAccepts ==
  pc = "updated" => (result = "ok" /\ accept(nfa, string))

\* C8: update_nfa removes no state and no transition and keeps start and
\* final; it only adds transitions and alphabet symbols, so every string
\* accepted before the call is accepted after it.
C8_UpdatePreserves ==
  pc = "updated" =>
    /\ nfa.states = old.states
    /\ nfa.start_state = old.start_state
    /\ nfa.final_state = old.final_state
    /\ old.transitions \subseteq nfa.transitions
    /\ old.alphabet \subseteq nfa.alphabet
    /\ \A s \in Strings(Chars, MaxStrLen) : accept(old, s) => accept(nfa, s)

C8_Witness ==
  /\ pc = "updated"
  /\ result = "ok"
  /\ nfa.transitions # old.transitions
  /\ nfa.alphabet # old.alphabet
  /\ \E s \in Strings(Chars, MaxStrLen) : s # string /\ accept(old, s) /\ accept(nfa, s)
  /\ ~accept(old, string)

----------------------------------------------------------------------------
(* parsing.parse_regex: the shunting-yard loop.  sym is a sequence of one   *)
(* character, of a backslash and a character, or None (the concatenation    *)
(* operator).  A token of the output is an operator id or the code point of *)
(* a literal character.  regex[i] raises IndexError when i >= len(regex).   *)

None == <<>>

OperatorChars == {chBar, chStar, chPlus, chOpt, chLPar, chRPar}

in_operators(sym) == sym = None \/ (Len(sym) = 1 /\ sym[1] \in OperatorChars)

op_id(sym) ==
  IF sym = None THEN opConcat
  ELSE CASE sym[1] = chBar -> opUnion
         [] sym[1] = chStar -> opStar
         [] sym[1] = chPlus -> opPlus
         [] sym[1] = chOpt -> opOpt
         [] sym[1] = chLPar -> opLPar
         [] sym[1] = chRPar -> opRPar

precedence(op) ==
  CASE op = opConcat -> 2
    [] op = opUnion -> 1
    [] op \in {opStar, opPlus, opOpt} -> 3
    [] OTHER -> 0

suffix(op) == op \in {opStar, opPlus, opOpt}

ParseError(st) == [st EXCEPT !.kind = "IndexError"]

\* while regex[current_pos - 1] != '>': current_pos += 1
RECURSIVE skip_name(_, _)
skip_name(rx, current_pos) ==
  IF current_pos - 1 >= Len(rx) THEN 0 - 1
  ELSE IF rx[current_pos] # chGt THEN skip_name(rx, current_pos + 1)
  ELSE current_pos

\* the position after '(' and its '?' prefix; -1 stands for IndexError
after_open(rx, current_pos) ==
  IF current_pos >= Len(rx) THEN 0 - 1
  ELSE IF rx[current_pos + 1] # chOpt THEN current_pos
  ELSE LET pos == current_pos + 2
       IN IF pos - 1 >= Len(rx) THEN 0 - 1
          ELSE IF rx[pos] # chLt THEN pos
          ELSE IF pos >= Len(rx) THEN 0 - 1
          ELSE IF rx[pos + 1] \in {chBang, chEq} THEN pos
          ELSE skip_name(rx, pos)

\* while stack[-1] != _operators['('].id: postfix_output.append(stack.pop())
RECURSIVE pop_to_open(_)
pop_to_open(st) ==
  IF st.stack = <<>> THEN ParseError(st)
  ELSE IF st.stack[Len(st.stack)] # opLPar
  THEN pop_to_open([st EXCEPT !.postfix_output = Append(@, st.stack[Len(st.stack)]),
                              !.stack = Pop(@)])
  ELSE st

RECURSIVE pop_higher(_, _)
pop_higher(st, op) ==
  IF Len(st.stack) > 0 /\ precedence(st.stack[Len(st.stack)]) > precedence(op)
  THEN pop_higher([st EXCEPT !.postfix_output = Append(@, st.stack[Len(st.stack)]),
                             !.stack = Pop(@)], op)
  ELSE st

parse_token(rx, st, sym, escape, current_pos) ==
  IF sym = <<chLPar>>
  THEN LET pos == after_open(rx, current_pos)
       IN IF pos < 0 THEN ParseError(st)
          ELSE [st EXCEPT !.stack = Append(@, opLPar), !.current_pos = pos,
                          !.concatenate_next = FALSE]
  ELSE IF sym = <<chRPar>>
  THEN LET popped == pop_to_open(st)
       IN IF popped.kind # "ok" THEN popped
          ELSE [popped EXCEPT !.stack = Pop(@), !.current_pos = current_pos,
                              !.concatenate_next = TRUE]
  ELSE IF in_operators(sym)
  THEN LET popped == pop_higher(st, op_id(sym))
       IN IF suffix(op_id(sym))
          THEN [popped EXCEPT !.postfix_output = Append(@, op_id(sym)),
                              !.current_pos = current_pos, !.concatenate_next = TRUE]
          ELSE [popped EXCEPT !.stack = Append(@, op_id(sym)),
                              !.current_pos = current_pos, !.concatenate_next = FALSE]
  ELSE [st EXCEPT !.postfix_output = Append(@, IF escape THEN sym[2] ELSE sym[1]),
                  !.current_pos = current_pos, !.concatenate_next = TRUE]

parse_iteration(rx, st) ==
  LET first == rx[st.current_pos + 1]
      escape == first = chBackslash
      pos == IF escape THEN st.current_pos + 1 ELSE st.current_pos
  IN IF pos >= Len(rx) THEN ParseError(st)
     ELSE LET sym == IF escape THEN <<first, rx[pos + 1]>> ELSE <<first>>
          IN IF st.concatenate_next /\ (sym = <<chLPar>> \/ ~in_operators(sym))
             THEN parse_token(rx, st, None, escape, pos)
             ELSE parse_token(rx, st, sym, escape, pos + 1)

RECURSIVE parse_loop(_, _)
parse_loop(rx, st) ==
  IF st.kind # "ok" THEN st
  ELSE IF st.current_pos < Len(rx) THEN parse_loop(rx, parse_iteration(rx, st))
  ELSE st

RECURSIVE Reverse(_)
Reverse(list) == IF list = <<>> THEN <<>> ELSE Append(Reverse(Tail(list)), list[1])

parse_regex(rx) ==
  LET st == parse_loop(rx, [kind |-> "ok", stack |-> <<>>, postfix_output |-> <<>>,
                            concatenate_next |-> FALSE, current_pos |-> 0])
  IN [kind |-> st.kind,
      postfix |-> IF st.kind = "ok" THEN st.postfix_output \o Reverse(st.stack) ELSE <<>>]

(* parsing.construct_nfa on a whole postfix program *)

is_int(tok) == tok \in 0..opRPar

RECURSIVE construct_loop(_, _)
construct_loop(program, stk) ==
  IF program = <<>>
  THEN IF Len(stk) # 1 THEN [kind |-> "ValueError", nfa |-> NoNfa]
       ELSE [kind |-> "ok", nfa |-> stk[1]]
  ELSE LET sym == program[1]
       IN IF is_int(sym)
          THEN IF Len(stk) < num_args(sym) THEN [kind |-> "IndexError", nfa |-> NoNfa]
               ELSE construct_loop(Tail(program), apply_op(sym, stk))
          ELSE construct_loop(Tail(program), Append(stk, literal_nfa(Sym(sym))))

construct_nfa(program) ==
  IF Len(program) = 0 THEN [kind |-> "ok", nfa |-> NFA({0}, {}, {}, 0, 0)]
  ELSE construct_loop(program, <<>>)

----------------------------------------------------------------------------
(* From a regex to its automata: parse_regex_as_nfa, then to_dfa() and      *)
(* minimize() as test.py calls them, or union_edges() with the default      *)
(* combiner.                                                                *)

RegexChars == {chA, chB, chLPar, chRPar, chBar, chStar, chOpt, chBackslash}

(* test.py's pattern, a(aa)*b* *)
pattern == <<chA, chLPar, chA, chA, chRPar, chStar, chB, chStar>>

Scenarios == {pattern}

InitParse ==
  /\ pc = "regex"
  /\ stack = <<>>
  /\ steps = 0
  /\ nfa = NoNfa
  /\ dfa = NoDfa
  /\ string = <<>>
  /\ table = <<>>
  /\ result = "none"
  /\ call = NoCall
  /\ old = NoNfa
  /\ olddfa = NoDfa
  /\ regex \in Strings(RegexChars, MaxRegexLen) \cup Scenarios
  /\ postfix = <<>>
  /\ params = NoParams
  /\ heap = NoHeap
  /\ frame = NoFrame

ParseRegex ==
  /\ pc = "regex"
  /\ LET r == parse_regex(regex)
     IN /\ postfix' = r.postfix
        /\ result' = r.kind
        /\ pc' = IF r.kind = "ok" THEN "postfix" ELSE "error"
  /\ UNCHANGED <<stack, steps, nfa, dfa, string, table, call, old, olddfa,
                 regex, params, heap, frame>>

ConstructNfa ==
  /\ pc = "postfix"
  /\ LET r == construct_nfa(postfix)
     IN /\ nfa' = r.nfa
        /\ result' = r.kind
        /\ pc' = IF r.kind = "ok" THEN "nfa" ELSE "error"
  /\ UNCHANGED <<stack, steps, dfa, string, table, call, old, olddfa, rest>>

ToDfaDefault ==
  /\ pc = "nfa"
  /\ \E order \in Perms(nfa.alphabet) : dfa' = to_dfa(nfa, FALSE, order)
  /\ pc' = "dfa"
  /\ UNCHANGED <<stack, steps, nfa, string, table, result, call, old, olddfa, rest>>

UnionEdgesDefault ==
  /\ pc = "nfa"
  /\ \E order \in Perms({t[2] : t \in nfa.transitions}) :
       nfa' = union_edges_in(nfa, "default", order)
  /\ old' = nfa
  /\ pc' = "edges"
  /\ UNCHANGED <<stack, steps, dfa, string, table, result, call, olddfa, rest>>

NextParse == ParseRegex \/ ConstructNfa \/ ToDfaDefault \/ Minimize \/ UnionEdgesDefault

SpecParse == InitParse /\ [][NextParse]_vars

(* The parentheses of a regex, a backslash escaping the character after it *)

RECURSIVE Depths(_, _)
Depths(rx, depth) ==
  IF rx = <<>> THEN <<depth>>
  ELSE IF rx[1] = chBackslash THEN Depths(IF Len(rx) >= 2 THEN SubSeq(rx, 3, Len(rx)) ELSE <<>>, depth)
  ELSE IF rx[1] = chLPar THEN <<depth>> \o Depths(Tail(rx), depth + 1)
  ELSE IF rx[1] = chRPar THEN <<depth>> \o Depths(Tail(rx), depth - 1)
  ELSE Depths(Tail(rx), depth)

Unbalanced(rx) ==
  LET d == Depths(rx, 0) IN d[Len(d)] # 0 \/ \E i \in 1..Len(d) : d[i] < 0

\* C11: parsing a regex with unbalanced parentheses fails with an error: no
\* postfix program and no automaton is returned for it.
C11_UnbalancedFails ==
  Unbalanced(regex) => pc \in {"regex", "error"}

RECURSIVE EscapedCount(_, _)
EscapedCount(rx, c) ==
  IF Len(rx) < 2 THEN 0
  ELSE IF rx[1] = chBackslash
  THEN (IF rx[2] = c THEN 1 ELSE 0) + EscapedCount(SubSeq(rx, 3, Len(rx)), c)
  ELSE EscapedCount(Tail(rx), c)

RECURSIVE UnescapedCount(_, _)
UnescapedCount(rx, c) ==
  IF rx = <<>> THEN 0
  ELSE IF rx[1] = chBackslash
  THEN UnescapedCount(IF Len(rx) >= 2 THEN SubSeq(rx, 3, Len(rx)) ELSE <<>>, c)
  ELSE (IF rx[1] = c THEN 1 ELSE 0) + UnescapedCount(Tail(rx), c)

Count(list, x) == Cardinality({i \in 1..Len(list) : list[i] = x})

\* C12: a backslash-escaped character is always emitted by parse_regex as a
\* literal token and never acts as an operator: the output holds at least as
\* many literal tokens c as the regex has escaped c, and no more operator
\* tokens of an operator character than the regex has it unescaped.
C12_EscapedIsLiteral ==
  pc = "postfix" =>
    \A c \in {chBar, chStar, chPlus, chOpt} :
      /\ Count(postfix, c) >= EscapedCount(regex, c)
      /\ Count(postfix, op_id(<<c>>)) <= UnescapedCount(regex, c)

----------------------------------------------------------------------------
(* The loops of the automaton operations, one pass per step.  frame holds   *)
(* the locals of the running call: for NFA.to_dfa the arguments complete    *)
(* and order and st (state_list, transitions, worklist).                    *)

InitAuto ==
  /\ pc = "nfa"
  /\ stack = <<>>
  /\ steps = 0
  /\ \E n \in 1..MaxNfaStates : IsSmallNfa(nfa, n, MaxEdges)
  /\ dfa = NoDfa
  /\ string = <<>>
  /\ table = <<>>
  /\ result = "none"
  /\ call = NoCall
  /\ old = nfa
  /\ olddfa = NoDfa
  /\ RestInit

ToDfaEnter ==
  /\ pc = "nfa"
  /\ \E complete \in BOOLEAN, order \in Perms(nfa.alphabet) :
       frame' = [op |-> "to_dfa", complete |-> complete, order |-> order,
                 st |-> to_dfa_enter(nfa)]
  /\ pc' = "to_dfa"
  /\ UNCHANGED <<stack, steps, nfa, dfa, string, table, result, call, old, olddfa,
                 regex, postfix, params, heap>>

ToDfaIteration ==
  /\ pc = "to_dfa"
  /\ frame.st.worklist # <<>>
  /\ frame' = [frame EXCEPT !.st = to_dfa_iteration(nfa, frame.complete, frame.order, @)]
  /\ UNCHANGED <<pc, stack, steps, nfa, dfa, string, table, result, call, old, olddfa,
                 regex, postfix, params, heap>>

ToDfaReturn ==
  /\ pc = "to_dfa"
  /\ frame.st.worklist = <<>>
  /\ dfa' = to_dfa_return(nfa, frame.st)
  /\ pc' = "dfa"
  /\ UNCHANGED <<stack, steps, nfa, string, table, result, call, old, olddfa, rest>>

(* DFA.minimize, one pass of the innermost loop per step.  frame holds the  *)
(* locals: order (the iteration order of the alphabet), st (partitions,     *)
(* final_states, worklist), curr_part, i (position in order), index and n   *)
(* (the length of partitions when the loop over index began).  self is      *)
(* assigned only by the return.                                             *)

MinimizeEmpty ==
  /\ pc = "dfa"
  /\ reachable(dfa, {dfa.start_state}) \cap dfa.final_states = {}
  /\ dfa' = minimize_empty(dfa)
  /\ olddfa' = dfa
  /\ frame' = [op |-> "minimize", phase |-> "empty"]
  /\ pc' = "mdfa"
  /\ UNCHANGED <<stack, steps, nfa, string, table, result, call, old,
                 regex, postfix, params, heap>>

MinimizeEnter ==
  /\ pc = "dfa"
  /\ reachable(dfa, {dfa.start_state}) \cap dfa.final_states # {}
  /\ \E order \in Perms(dfa.alphabet) :
       frame' = [op |-> "minimize", phase |-> "while", order |-> order,
                 st |-> minimize_enter(dfa), curr_part |-> {}, i |-> 1, index |-> 0, n |-> 0]
  /\ olddfa' = dfa
  /\ pc' = "minimize"
  /\ UNCHANGED <<stack, steps, nfa, dfa, string, table, result, call, old,
                 regex, postfix, params, heap>>

MinimizePop ==
  /\ pc = "minimize"
  /\ frame.phase = "while"
  /\ frame.st.worklist # <<>>
  /\ frame' = [frame EXCEPT
       !.curr_part = frame.st.partitions[frame.st.worklist[Len(frame.st.worklist)] + 1],
       !.st = [@ EXCEPT !.worklist = Pop(@)],
       !.i = 1, !.index = 0, !.n = Len(frame.st.partitions),
       !.phase = IF frame.order = <<>> THEN "while" ELSE "for"]
  /\ UNCHANGED <<pc, stack, steps, nfa, dfa, string, table, result, call, old, olddfa,
                 regex, postfix, params, heap>>

MinimizeSplit ==
  /\ pc = "minimize"
  /\ frame.phase = "for"
  /\ LET st == split_part(dfa, frame.curr_part, frame.order[frame.i], frame.index, frame.st)
         last_index == frame.index + 1 >= frame.n
         last_sym == frame.i + 1 > Len(frame.order)
     IN frame' = [frame EXCEPT
          !.st = st,
          !.index = IF last_index THEN 0 ELSE @ + 1,
          !.i = IF last_index /\ ~last_sym THEN @ + 1 ELSE @,
          !.n = IF last_index THEN Len(st.partitions) ELSE @,
          !.phase = IF last_index /\ last_sym THEN "while" ELSE "for"]
  /\ UNCHANGED <<pc, stack, steps, nfa, dfa, string, table, result, call, old, olddfa,
                 regex, postfix, params, heap>>

MinimizeReturn ==
  /\ pc = "minimize"
  /\ frame.phase = "while"
  /\ frame.st.worklist = <<>>
  /\ dfa' = minimize_return(dfa, frame.st)
  /\ pc' = "mdfa"
  /\ UNCHANGED <<stack, steps, nfa, string, table, result, call, old, olddfa, rest>>

MinimizeSteps ==
  MinimizeEmpty \/ MinimizeEnter \/ MinimizePop \/ MinimizeSplit \/ MinimizeReturn

NextRefine == MinimizeSteps

SpecRefine == InitDfa /\ [][NextRefine]_vars

(* The stepped loop returns what the operator minimize computes. *)
MinimizeStepsAgree ==
  pc = "mdfa" /\ frame.phase # "empty" => dfa = minimize(olddfa, frame.order)

(* test.py: the minimized DFA goes back to an NFA, the two-state NFA empty  *)
(* is put in front of it, and non-terminal states are ripped while more     *)
(* than two states remain.  RipTerminal is a call of rip on the start or    *)
(* the final state, which the loop itself never makes.                      *)

empty == NFA({0, 1}, {}, {<<0, Eps, 1>>}, 0, 1)

ToNfa ==
  /\ pc = "mdfa"
  /\ nfa' = union_edges(concat(empty, to_nfa(dfa)), "postfix")
  /\ old' = nfa'
  /\ frame' = NoFrame
  /\ pc' = "loop"
  /\ UNCHANGED <<stack, steps, dfa, string, table, result, call, olddfa,
                 regex, postfix, params, heap>>

LoopRip ==
  /\ pc = "loop"
  /\ Cardinality(nfa.states) > 2
  /\ \E rip_state \in nfa.states \ {nfa.start_state, nfa.final_state} :
       LET r == rip(nfa, rip_state, FALSE, "postfix")
       IN /\ nfa' = union_edges(r.nfa, "postfix")
          /\ result' = r.kind
          /\ call' = Call("rip", rip_state, FALSE)
  /\ old' = nfa
  /\ UNCHANGED <<pc, stack, steps, dfa, string, table, olddfa, rest>>

RipTerminal ==
  /\ pc = "loop"
  /\ \E state \in {nfa.start_state, nfa.final_state}, safe \in BOOLEAN :
       LET r == rip(nfa, state, safe, "postfix")
       IN /\ nfa' = r.nfa
          /\ result' = r.kind
          /\ call' = Call("rip", state, safe)
          /\ pc' = IF r.kind = "ValueError" THEN "raised" ELSE "loop"
  /\ old' = nfa
  /\ UNCHANGED <<stack, steps, dfa, string, table, olddfa, rest>>

LoopExit ==
  /\ pc = "loop"
  /\ Cardinality(nfa.states) <= 2
  /\ pc' = "ripped"
  /\ UNCHANGED <<stack, steps, nfa, dfa, string, table, result, call, old, olddfa, rest>>

NextAuto ==
  \/ ToDfaEnter \/ ToDfaIteration \/ ToDfaReturn
  \/ MinimizeSteps
  \/ ToNfa \/ LoopRip \/ RipTerminal \/ LoopExit

SpecAuto == InitAuto /\ [][NextAuto]_vars

(* The stepped loop returns what the operator to_dfa computes. *)
ToDfaStepsAgree ==
  pc = "dfa" => dfa = to_dfa(nfa, frame.complete, frame.order)

\* C13: the DFA returned by to_dfa, complete or not, is deterministic and
\* closed: its transitions map each (state, symbol) pair to one state, every
\* pair is a state of the DFA with a symbol of its alphabet, and every
\* destination is a state of the DFA.
C13_DfaDeterministic ==
  pc = "dfa" =>
    /\ \A key \in DOMAIN dfa.transitions :
         /\ key[1] \in dfa.states
         /\ key[2] \in dfa.alphabet
         /\ dfa.transitions[key] \in dfa.states
    /\ DFAValid(dfa.states, dfa.start_state, dfa.final_states)
    /\ frame.complete => DOMAIN dfa.transitions = dfa.states \X dfa.alphabet

(* A complete DFA with a dead state and a partial one with three states. *)
C13_Witness ==
  /\ pc = "dfa"
  /\ Cardinality(dfa.states) >= 3
  /\ \E key \in DOMAIN dfa.transitions : dfa.transitions[key] # key[1]
  /\ \E q \in nfa.states, sym \in nfa.alphabet :
       Cardinality({t \in nfa.transitions : t[1] = q /\ t[2] = sym}) >= 2

----------------------------------------------------------------------------
(* NFA.__init__ and DFA.__init__ called with any states, start and final    *)
(* states.  params records the arguments; the object is stored in nfa or    *)
(* dfa only when the constructor returns.                                   *)

new_NFA(states, alphabet, transitions, start_state, final_state) ==
  IF NFAValid(states, start_state, final_state)
  THEN [kind |-> "ok", nfa |-> NFA(states, alphabet, transitions, start_state, final_state)]
  ELSE [kind |-> "ValueError", nfa |-> NoNfa]

new_DFA(states, alphabet, transitions, start_state, final_states) ==
  IF DFAValid(states, start_state, final_states)
  THEN [kind |-> "ok", dfa |-> DFA(states, alphabet, transitions, start_state, final_states)]
  ELSE [kind |-> "ValueError", dfa |-> NoDfa]

InitNew ==
  /\ pc = "new"
  /\ stack = <<>>
  /\ steps = 0
  /\ nfa = NoNfa
  /\ dfa = NoDfa
  /\ string = <<>>
  /\ table = <<>>
  /\ result = "none"
  /\ call = NoCall
  /\ old = NoNfa
  /\ olddfa = NoDfa
  /\ RestInit

NewNFA ==
  /\ pc = "new"
  /\ \E states \in SUBSET (0..(MaxNfaStates - 1)),
        start_state \in 0..(MaxNfaStates - 1), final_state \in 0..(MaxNfaStates - 1),
        transitions \in {{}, {<<0, Sym(chA), 1>>}} :
       LET r == new_NFA(states, Symbols, transitions, start_state, final_state)
       IN /\ params' = [op |-> "NFA", states |-> states, start_state |-> start_state,
                         final |-> {final_state}]
          /\ nfa' = r.nfa
          /\ result' = r.kind
          /\ pc' = IF r.kind = "ok" THEN "constructed" ELSE "raised"
  /\ UNCHANGED <<stack, steps, dfa, string, table, call, old, olddfa,
                 regex, postfix, heap, frame>>

NewDFA ==
  /\ pc = "new"
  /\ \E states \in SUBSET (0..(MaxDfaStates - 1)),
        start_state \in 0..(MaxDfaStates - 1), final_states \in SUBSET (0..(MaxDfaStates - 1)),
        transitions \in {<<>>, (<<0, Sym(chA)>> :> 1)} :
       LET r == new_DFA(states, Symbols, transitions, start_state, final_states)
       IN /\ params' = [op |-> "DFA", states |-> states, start_state |-> start_state,
                         final |-> final_states]
          /\ dfa' = r.dfa
          /\ result' = r.kind
          /\ pc' = IF r.kind = "ok" THEN "constructed" ELSE "raised"
  /\ UNCHANGED <<stack, steps, nfa, string, table, call, old, olddfa,
                 regex, postfix, heap, frame>>

NextNew == NewNFA \/ NewDFA

SpecNew == InitNew /\ [][NextNew]_vars

\* C14: a constructor call succeeds exactly when the start state and the
\* final state (for a DFA every final state) are members of the state set;
\* otherwise it raises ValueError and no object exists.
C14_ConstructionValidated ==
  pc # "new" =>
    LET valid == params.start_state \in params.states /\ params.final \subseteq params.states
    IN /\ valid <=> (pc = "constructed")
       /\ valid <=> (result = "ok")
       /\ ~valid => result = "ValueError" /\ nfa = NoNfa /\ dfa = NoDfa
       /\ valid /\ params.op = "NFA" =>
            nfa.states = params.states /\ nfa.start_state = params.start_state
              /\ {nfa.final_state} = params.final
       /\ valid /\ params.op = "DFA" =>
            dfa.states = params.states /\ dfa.start_state = params.start_state
              /\ dfa.final_states = params.final

(* An NFA refused for its final state alone, the start state being valid. *)
C14_Witness ==
  /\ pc = "raised"
  /\ params.op = "NFA"
  /\ params.start_state \in params.states
  /\ ~(params.final \subseteq params.states)

C16_ScenarioPattern ==
  regex = pattern =>
    /\ pc \in {"nfa", "dfa", "mdfa"} =>
         /\ accept(nfa, <<chA>>)
         /\ accept(nfa, <<chA, chA, chA, chB>>)
         /\ ~accept(nfa, <<chB>>)
         /\ ~accept(nfa, <<>>)
    /\ pc = "mdfa" => Cardinality(dfa.states) = 3
    /\ pc \notin {"error"}

(* The pattern went through parse_regex, construct_nfa, to_dfa and minimize. *)
C16_Witness ==
  /\ regex = pattern
  /\ pc = "mdfa"
  /\ Cardinality(olddfa.states) > Cardinality(dfa.states)

\* C17: for the regex a|b the NFA has the two states start and final, and
\* after union_edges it has exactly one transition, from start to final,
\* labelled with the alternation of a and b in one order or the other.
C17_ScenarioUnion ==
  regex = <<chA, chBar, chB>> /\ pc = "edges" =>
    /\ nfa.states = {nfa.start_state, nfa.final_state}
    /\ nfa.start_state # nfa.final_state
    /\ \/ nfa.transitions = {<<nfa.start_state, Str(<<chA, chBar, chB>>), nfa.final_state>>}
       \/ nfa.transitions = {<<nfa.start_state, Str(<<chB, chBar, chA>>), nfa.final_state>>}

(* The two parallel edges of a|b became one edge, b taken first. *)
C17_Witness ==
  /\ regex = <<chA, chBar, chB>>
  /\ pc = "edges"
  /\ Cardinality(old.transitions) = 2
  /\ \E t \in nfa.transitions : t[2] = Str(<<chB, chBar, chA>>)

----------------------------------------------------------------------------
(* Termination.  The program is sequential: a call that can take a step     *)
(* takes it, which is weak fairness of the next-state action.  For the      *)
(* steps of to_dfa and minimize it is stated with WF.  For the steps of     *)
(* the rip loop the enabling condition is written out: one of them is       *)
(* enabled exactly when pc is "mdfa" or "loop" (ToNfa has no other guard,   *)
(* and in the loop RipTerminal can always be called).                       *)
(* Checked on the NFAs with at most MaxFairEdges transitions.               *)

InitFair ==
  /\ InitAuto
  /\ Cardinality(nfa.transitions) <= MaxFairEdges

ToDfaSteps == ToDfaEnter \/ ToDfaIteration \/ ToDfaReturn

LoopSteps == ToNfa \/ LoopRip \/ RipTerminal \/ LoopExit

LoopFairness == <>[](pc \in {"mdfa", "loop"}) => []<><<LoopSteps>>_vars

FairAuto ==
  /\ InitFair
  /\ [][NextAuto]_vars
  /\ WF_vars(ToDfaSteps \/ MinimizeSteps)
  /\ LoopFairness

(* A sequence without repeated elements. *)
NoDuplicates(list) == \A j, k \in 1..Len(list) : list[j] = list[k] => j = k

Power2(n) == Cardinality(SUBSET (1..n))

Bounded ==
  /\ pc = "to_dfa" =>
       /\ NoDuplicates(frame.st.state_list)
       /\ Len(frame.st.state_list) <= Power2(Cardinality(nfa.states))
  /\ pc = "dfa" => Cardinality(dfa.states) <= Power2(Cardinality(nfa.states))
  /\ pc \in {"loop", "ripped"} /\ call.op = "rip" /\ result = "ok" =>
       Cardinality(nfa.states) = Cardinality(old.states) - 1

\* C18: to_dfa (with the eps_closure calls it makes), minimize and the loop
\* that rips while more than two states remain all terminate; the list of
\* subsets built by to_dfa never holds a subset twice, so the DFA has at
\* most 2^|Q| states; each successful rip removes exactly one state.
C18_Terminates ==
  /\ []Bounded
  /\ (pc = "to_dfa") ~> (pc = "dfa")
  /\ (pc = "minimize") ~> (pc = "mdfa")
  /\ (pc = "loop") ~> (pc \in {"ripped", "raised"})
  /\ <>(pc \in {"ripped", "raised"})

(* to_dfa met a subset it had stored before (a DFA state with a loop on     *)
(* itself), and later the rip loop ended after a rip.                       *)
C18_Witness ==
  /\ pc = "ripped"
  /\ call.op = "rip"
  /\ Cardinality(olddfa.states) >= 3
  /\ \E key \in DOMAIN olddfa.transitions : olddfa.transitions[key] = key[1]

----------------------------------------------------------------------------
(* The partition kept by minimize's refinement loop *)

cell_of(partitions, state) == CHOOSE j \in 1..Len(partitions) : state \in partitions[j]

PartitionOk ==
  LET partitions == frame.st.partitions
      reach == reachable(dfa, {dfa.start_state})
  IN /\ \A j \in 1..Len(partitions) : partitions[j] # {}
     /\ \A j, k \in 1..Len(partitions) : j # k => partitions[j] \cap partitions[k] = {}
     /\ UNION {partitions[j] : j \in 1..Len(partitions)} = reach
     /\ \A j \in 1..Len(partitions) :
          (j - 1) \in frame.st.final_states <=> partitions[j] \subseteq dfa.final_states
     /\ frame.st.final_states \subseteq 0..(Len(partitions) - 1)

NoRejoin ==
  \A p, q \in reachable(dfa, {dfa.start_state}) :
    cell_of(frame.st.partitions, p) # cell_of(frame.st.partitions, q) =>
      cell_of(frame'.st.partitions, p) # cell_of(frame'.st.partitions, q)

\* C20: at every step of minimize's refinement loop the cells are non-empty,
\* pairwise disjoint and their union is the set of reachable states; two
\* states in different cells are never in one cell again; a cell is flagged
\* final exactly when all its members are final states.
C20_PartitionRefined ==
  [][/\ pc' = "minimize" => PartitionOk'
     /\ pc = "minimize" /\ pc' = "minimize" => NoRejoin]_vars

(* Three cells, two of them flagged final: a final cell was split. *)
C20_Witness ==
  /\ pc = "minimize"
  /\ Len(frame.st.partitions) >= 3
  /\ Cardinality(frame.st.final_states) >= 2

----------------------------------------------------------------------------
(* Objects and references.  heap is the sequence of the mutable objects     *)
(* made so far, an address is a position in it.  A set object holds a set,  *)
(* a dict object maps each key (src, sym) to the address of a set object,   *)
(* an NFA object holds the addresses of its states set, alphabet set and    *)
(* transitions dict, and its start and final state.  States and symbols     *)
(* are immutable values.                                                    *)

SetObj(S) == [kind |-> "set", val |-> S]

DictObj(f) == [kind |-> "dict", val |-> f]

Keys(v) == {<<t[1], t[2]>> : t \in v.transitions}

Dsts(v, key) == {t[3] : t \in {u \in v.transitions : u[1] = key[1] /\ u[2] = key[2]}}

(* The automaton held by the NFA object at address a. *)
value(h, a) ==
  LET dict == h[h[a].transitions].val
  IN NFA(h[h[a].states].val, h[h[a].alphabet].val,
         UNION {{<<key[1], key[2], dst>> : dst \in h[dict[key]].val} : key \in DOMAIN dict},
         h[a].start_state, h[a].final_state)

(* The objects reachable from the NFA object at address a. *)
Addrs(h, a) ==
  {a, h[a].states, h[a].alphabet, h[a].transitions} \cup Range(h[h[a].transitions].val)

(* NFA.__init__: set(states), set(alphabet), a new defaultdict and a new set *)
(* for every key; the new NFA object is the last object of the result.      *)
heap_new(h, v) ==
  LET keys == SetToSeq(Keys(v))
      base == Len(h)
  IN h \o <<SetObj(v.states), SetObj(v.alphabet)>>
       \o [j \in 1..Len(keys) |-> SetObj(Dsts(v, keys[j]))]
       \o <<DictObj([key \in Keys(v) |-> base + 3 + IndexOf(keys, key)]),
            [kind |-> "nfa", states |-> base + 1, alphabet |-> base + 2,
             transitions |-> base + 3 + Len(keys),
             start_state |-> v.start_state, final_state |-> v.final_state]>>

\* copy that shares the sets and the dict of the original
copy_shallow(h, a) == Append(h, h[a])

(* NFA.copy: the constructor called with the fields of self. *)
copy(h, a) == heap_new(h, value(h, a))

(* The in-place operations concat, union, star, plus and opt: they add to   *)
(* the states set, the alphabet set and the sets of the dict of self, make  *)
(* a new set for a new key, and assign start_state and final_state.  v is   *)
(* the automaton self holds afterwards.                                     *)
heap_update(h, a, v) ==
  LET dict == h[h[a].transitions].val
      new_keys == SetToSeq(Keys(v) \ DOMAIN dict)
      base == Len(h)
      key_of(addr) == CHOOSE key \in DOMAIN dict : dict[key] = addr
  IN [addr \in 1..Len(h) |->
        IF addr = h[a].states THEN SetObj(v.states)
        ELSE IF addr = h[a].alphabet THEN SetObj(v.alphabet)
        ELSE IF addr = h[a].transitions
        THEN DictObj([key \in DOMAIN dict \cup Keys(v) |->
                        IF key \in DOMAIN dict THEN dict[key]
                        ELSE base + 1 + IndexOf(new_keys, key)])
        ELSE IF addr \in Range(dict) THEN SetObj(Dsts(v, key_of(addr)))
        ELSE IF addr = a
        THEN [h[a] EXCEPT !.start_state = v.start_state, !.final_state = v.final_state]
        ELSE h[addr]]
     \o [j \in 1..Len(new_keys) |-> SetObj(Dsts(v, new_keys[j]))]

(* NFA.rip without safe: state is removed from the states set and from the  *)
(* sets of the old dict in place, the alphabet set grows in place, and      *)
(* self.transitions becomes a new dict of new sets.                         *)
heap_ripped(h, a, state, r) ==
  LET dict == h[h[a].transitions].val
      keys == SetToSeq(Keys(r.nfa))
      base == Len(h)
  IN [addr \in 1..Len(h) |->
        IF addr = h[a].states THEN SetObj(r.nfa.states)
        ELSE IF addr = h[a].alphabet THEN SetObj(r.nfa.alphabet)
        ELSE IF \E key \in DOMAIN dict : key[1] # state /\ dict[key] = addr
        THEN SetObj(h[addr].val \ {state})
        ELSE IF addr = a THEN [h[a] EXCEPT !.transitions = base + 1 + Len(keys)]
        ELSE h[addr]]
     \o [j \in 1..Len(keys) |-> SetObj(Dsts(r.nfa, keys[j]))]
     \o <<DictObj([key \in Keys(r.nfa) |-> base + 1 + IndexOf(keys, key)])>>

heap_rip(h, a, state) ==
  CHOOSE out \in {IF r.kind # "ok" THEN [kind |-> r.kind, heap |-> h]
                  ELSE [kind |-> "ok", heap |-> heap_ripped(h, a, state, r)] :
                  r \in {rip(value(h, a), state, FALSE, "default")}} : TRUE

(* self.copy().concat(other), self.copy().union(other), self.copy().rip(q) *)
__add__(h, a, b) ==
  LET h1 == copy(h, a)
  IN [kind |-> "ok", result |-> Len(h1),
      heap |-> heap_update(h1, Len(h1), concat(value(h1, Len(h1)), value(h1, b)))]

__or__(h, a, b) ==
  LET h1 == copy(h, a)
  IN [kind |-> "ok", result |-> Len(h1),
      heap |-> heap_update(h1, Len(h1), union(value(h1, Len(h1)), value(h1, b)))]

__sub__(h, a, state) ==
  LET h1 == copy(h, a)
  IN CHOOSE out \in {[kind |-> r.kind, result |-> Len(h1), heap |-> r.heap] :
                     r \in {heap_rip(h1, Len(h1), state)}} : TRUE

(* The operands A and B: two NFA objects made by the constructor. *)
HeapNfas(n, e) ==
  {NFA(0..(k - 1), Symbols, transitions, 0, k - 1) :
     k \in 1..n, transitions \in SubsetsUpTo((0..(n - 1)) \X Labels \X (0..(n - 1)), e)}

InitHeap ==
  /\ pc = "objects"
  /\ stack = <<>>
  /\ steps = 0
  /\ nfa = NoNfa
  /\ dfa = NoDfa
  /\ string = <<>>
  /\ table = <<>>
  /\ result = "none"
  /\ call = NoCall
  /\ old = NoNfa
  /\ olddfa = NoDfa
  /\ regex = <<>>
  /\ postfix = <<>>
  /\ frame = NoFrame
  /\ \E A \in HeapNfas(MaxHeapStates, MaxHeapEdges), B \in HeapNfas(2, 1) :
       /\ Consistent(A) /\ Consistent(B)
       /\ LET h1 == heap_new(<<>>, A)
              h2 == heap_new(h1, B)
          IN /\ heap = h2
             /\ params = [op |-> "none", A |-> Len(h1), B |-> Len(h2),
                           self |-> 0, other |-> 0, result |-> 0, before |-> h2]

(* A call x + y, x | y, x - q, x.concat(y) or x.union(y) on the operands.   *)
Called(op, self, other, returned) ==
  \E r \in {returned} :
  /\ heap' = r.heap
  /\ result' = r.kind
  /\ params' = [params EXCEPT !.op = op, !.self = self, !.other = other,
                               !.result = r.result, !.before = heap]
  /\ pc' = IF r.kind = "ok" THEN "called" ELSE "raised"
  /\ UNCHANGED <<stack, steps, nfa, dfa, string, table, call, old, olddfa,
                 regex, postfix, frame>>

CallAdd ==
  /\ pc = "objects"
  /\ \E x, y \in {params.A, params.B} : Called("__add__", x, y, __add__(heap, x, y))

CallOr ==
  /\ pc = "objects"
  /\ \E x, y \in {params.A, params.B} : Called("__or__", x, y, __or__(heap, x, y))

CallSub ==
  /\ pc = "objects"
  /\ \E x \in {params.A, params.B} : \E q \in value(heap, x).states :
       Called("__sub__", x, q, __sub__(heap, x, q))

CallConcat ==
  /\ pc = "objects"
  /\ \E x, y \in {params.A, params.B} :
       /\ x # y
       /\ Called("concat", x, y,
                 [kind |-> "ok", result |-> x,
                  heap |-> heap_update(heap, x, concat(value(heap, x), value(heap, y)))])

CallUnion ==
  /\ pc = "objects"
  /\ \E x, y \in {params.A, params.B} :
       /\ x # y
       /\ Called("union", x, y,
                 [kind |-> "ok", result |-> x,
                  heap |-> heap_update(heap, x, union(value(heap, x), value(heap, y)))])

(* The result of an operator form is changed in place afterwards. *)
MutateResult ==
  /\ pc = "called"
  /\ params.op \in {"__add__", "__or__", "__sub__"}
  /\ \E v \in {star(value(heap, params.result)), opt(value(heap, params.result))} :
       heap' = heap_update(heap, params.result, v)
  /\ pc' = "mutated"
  /\ UNCHANGED <<stack, steps, nfa, dfa, string, table, result, call, old, olddfa,
                 regex, postfix, params, frame>>

NextHeap == CallAdd \/ CallOr \/ CallSub \/ CallConcat \/ CallUnion \/ MutateResult

SpecHeap == InitHeap /\ [][NextHeap]_vars

(* The objects of the NFA at address a are as they were before the call. *)
Untouched(a) ==
  /\ Addrs(heap, a) = Addrs(params.before, a)
  /\ \A addr \in Addrs(params.before, a) : heap[addr] = params.before[addr]

\* C19: x + y, x | y and x - q return a new NFA object and leave the objects
\* of x and y as they were, the result shares no set or dict with an operand,
\* and changing it in place afterwards changes no operand; x.concat(y) and
\* x.union(y) return x and leave the objects of y as they were.
C19_OperandsUnchanged ==
  /\ pc \in {"called", "raised", "mutated"} /\ params.op \in {"__add__", "__or__", "__sub__"} =>
       /\ Untouched(params.A)
       /\ Untouched(params.B)
  /\ pc \in {"called", "mutated"} /\ params.op \in {"__add__", "__or__", "__sub__"} =>
       /\ params.result \notin {params.A, params.B}
       /\ Addrs(heap, params.result) \cap (Addrs(heap, params.A) \cup Addrs(heap, params.B)) = {}
  /\ pc = "called" /\ params.op \in {"concat", "union"} =>
       /\ params.result = params.self
       /\ Untouched(params.other)
       /\ Addrs(heap, params.self) \cap Addrs(heap, params.other) = {}

(* x - q ripped a state with an edge into it, and the result was changed. *)
C19_Witness ==
  /\ pc = "mutated"
  /\ params.op = "__sub__"
  /\ \E t \in value(params.before, params.self).transitions :
       t[3] = params.other /\ t[1] # params.other

----------------------------------------------------------------------------
(* The empty subset in NFA.to_dfa.  After the return frame still holds      *)
(* state_list, so state i of the DFA is the subset state_list[i].           *)

subset_of(i) == frame.st.state_list[i + 1]

\* C21: to_dfa(complete=False) returns a DFA with no state for the empty
\* subset and no transition into the empty subset; to_dfa(complete=True)
\* returns a DFA with a transition for every state and every symbol of the
\* alphabet, in which a state for the empty subset is not final and goes to
\* itself on every symbol.
C21_EmptySubset ==
  pc = "dfa" =>
    IF frame.complete
    THEN /\ DOMAIN dfa.transitions = dfa.states \X dfa.alphabet
         /\ \A i \in dfa.states :
              subset_of(i) = {} =>
                /\ i \notin dfa.final_states
                /\ \A sym \in dfa.alphabet : dfa.transitions[<<i, sym>>] = i
    ELSE /\ \A i \in dfa.states : subset_of(i) # {}
         /\ \A key \in DOMAIN dfa.transitions : subset_of(dfa.transitions[key]) # {}

(* A complete DFA whose empty subset is reached from a state that also has *)
(* a transition into a non-empty subset.                                   *)
C21_Witness ==
  /\ pc = "dfa"
  /\ frame.complete
  /\ \E i \in dfa.states, a, b \in dfa.alphabet :
       /\ subset_of(i) # {}
       /\ subset_of(dfa.transitions[<<i, a>>]) = {}
       /\ subset_of(dfa.transitions[<<i, b>>]) # {}

----------------------------------------------------------------------------
(* State identifiers over a sequence of in-place operations on one          *)
(* automaton.  params holds the history: used is every identifier the       *)
(* automaton has had so far, before is used as it was when the last         *)
(* operation began and fresh is the identifiers that operation added.       *)

IdOperands ==
  {literal_nfa(Sym(chA)), literal_nfa(Sym(chB)),
   concat(literal_nfa(Sym(chA)), literal_nfa(Sym(chB)))}

InitIds ==
  /\ pc = "ids"
  /\ stack = <<>>
  /\ steps = 0
  /\ nfa \in IdOperands
  /\ dfa = NoDfa
  /\ string = <<>>
  /\ table = <<>>
  /\ result = "none"
  /\ call = NoCall
  /\ old = nfa
  /\ olddfa = NoDfa
  /\ regex = <<>>
  /\ postfix = <<>>
  /\ params = [op |-> "ids", used |-> nfa.states, before |-> nfa.states, fresh |-> {}]
  /\ heap = NoHeap
  /\ frame = NoFrame

Allocated(op, after) ==
  /\ nfa' = after
  /\ call' = Call(op, 0, FALSE)
  /\ old' = nfa
  /\ steps' = steps + 1
  /\ params' = [params EXCEPT !.used = @ \cup after.states, !.before = params.used,
                               !.fresh = after.states \ nfa.states]
  /\ UNCHANGED <<pc, stack, dfa, string, table, result, olddfa, regex, postfix, heap, frame>>

IdsConcat ==
  /\ pc = "ids" /\ steps < MaxIdOps
  /\ \E other \in IdOperands : Allocated("concat", concat(nfa, other))

IdsUnion ==
  /\ pc = "ids" /\ steps < MaxIdOps
  /\ \E other \in IdOperands : Allocated("union", union(nfa, other))

IdsStar ==
  /\ pc = "ids" /\ steps < MaxIdOps
  /\ Allocated("star", star(nfa))

IdsPlus ==
  /\ pc = "ids" /\ steps < MaxIdOps
  /\ Allocated("plus", plus(nfa))

IdsRip ==
  /\ pc = "ids" /\ steps < MaxIdOps
  /\ \E state \in nfa.states \ {nfa.start_state, nfa.final_state} :
       Allocated("rip", rip(nfa, state, FALSE, "default").nfa)

NextIds == IdsConcat \/ IdsUnion \/ IdsStar \/ IdsPlus \/ IdsRip

SpecIds == InitIds /\ [][NextIds]_vars

\* C22: the state identifiers that star, plus, concat and union add to an
\* automaton were never identifiers of that automaton before, the
\* identifiers of states removed by rip included.
C22_FreshIds ==
  params.op = "ids" => params.fresh \cap params.before = {}

(* Without rip the identifiers added are new ones. *)
C22_FreshWithoutRip ==
  [][pc = "ids" /\ call'.op # "rip" /\ params.used = nfa.states
       => params'.fresh \cap params.used = {}]_vars

----------------------------------------------------------------------------
(* union_edges called twice with the same combiner, on any small NFA and on *)
(* what rip with that combiner leaves of it.  params holds the combiner and *)
(* the automaton as it was before the first call; old is the automaton      *)
(* before the last call.                                                    *)

InitMerge ==
  /\ pc = "edges"
  /\ stack = <<>>
  /\ steps = 0
  /\ \E n \in 1..MaxNfaStates : IsSmallNfa(nfa, n, MaxEdges)
  /\ dfa = NoDfa
  /\ string = <<>>
  /\ table = <<>>
  /\ result = "none"
  /\ call = NoCall
  /\ old = nfa
  /\ olddfa = NoDfa
  /\ regex = <<>>
  /\ postfix = <<>>
  /\ \E combiner \in {"default", "postfix"} :
       params = [op |-> "merge", combiner |-> combiner, before |-> nfa]
  /\ heap = NoHeap
  /\ frame = NoFrame

MergeRip ==
  /\ pc = "edges"
  /\ steps = 0
  /\ \E state \in nfa.states \ {nfa.start_state, nfa.final_state} :
       nfa' = rip(nfa, state, FALSE, params.combiner).nfa
  /\ steps' = 1
  /\ call' = Call("rip", 0, FALSE)
  /\ old' = nfa'
  /\ params' = [params EXCEPT !.before = nfa']
  /\ UNCHANGED <<pc, stack, dfa, string, table, result, olddfa, regex, postfix, heap, frame>>

MergeEdges ==
  /\ pc = "edges"
  /\ \E order \in Perms({t[2] : t \in nfa.transitions}) :
       nfa' = union_edges_in(nfa, params.combiner, order)
  /\ old' = nfa
  /\ call' = Call("union_edges", 0, FALSE)
  /\ pc' = "merged"
  /\ UNCHANGED <<stack, steps, dfa, string, table, result, olddfa, rest>>

MergeAgain ==
  /\ pc = "merged"
  /\ \E order \in Perms({t[2] : t \in nfa.transitions}) :
       nfa' = union_edges_in(nfa, params.combiner, order)
  /\ old' = nfa
  /\ pc' = "merged_again"
  /\ UNCHANGED <<stack, steps, dfa, string, table, result, call, olddfa, rest>>

NextMerge == MergeRip \/ MergeEdges \/ MergeAgain

SpecMerge == InitMerge /\ [][NextMerge]_vars

Pairs(a) == {<<t[1], t[3]>> : t \in a.transitions}

LabelsOn(a, pair) == {t[2] : t \in {u \in a.transitions : u[1] = pair[1] /\ u[3] = pair[2]}}

\* C23: after union_edges every ordered pair of states carries at most one
\* label, the pairs that are connected are the pairs connected before, and
\* states, start and final are as before; a second union_edges with the
\* same combiner leaves the automaton as the first call left it.
C23_UnionEdgesMerged ==
  /\ pc = "merged" =>
       /\ \A pair \in Pairs(nfa) : Cardinality(LabelsOn(nfa, pair)) = 1
       /\ Pairs(nfa) = Pairs(old)
       /\ nfa.states = old.states
       /\ nfa.start_state = old.start_state
       /\ nfa.final_state = old.final_state
  /\ pc = "merged_again" => nfa = old

(* Both calls were made on an automaton that had a pair with two labels. *)
C23_Witness ==
  /\ pc = "merged_again"
  /\ \E pair \in Pairs(params.before) : Cardinality(LabelsOn(params.before, pair)) >= 2

----------------------------------------------------------------------------
(* The pure variants: nfa_immutable_old.NFA.__add__ and __or__ and          *)
(* dfa_immutable.DFA.minimize, next to the in-place NFA.concat, NFA.union   *)
(* and DFA.minimize on the same operands.  A dict of transitions is the set *)
(* of triples of its non-empty entries.                                     *)

(* __add__ assigns transitions[new_key] = new_dst: an entry of self under   *)
(* the same key is replaced.                                                *)
immutable_add(self, other) ==
  LET max_s == Max(self.states)
      min_o == Min(other.states)
      corr == max_s - min_o + 1
      ren(state) == IF state = other.start_state THEN self.final_state ELSE state + corr
      new_keys == {<<ren(t[1]), t[2]>> : t \in other.transitions}
  IN NFA(self.states \cup {state + corr : state \in other.states \ {other.start_state}},
         self.alphabet \cup other.alphabet,
         {t \in self.transitions : <<t[1], t[2]>> \notin new_keys}
           \cup {<<ren(t[1]), t[2], ren(t[3])>> : t \in other.transitions},
         self.start_state,
         other.final_state + corr)

(* __or__ joins the destinations when the key is there already. *)
immutable_or(self, other) ==
  LET max_s == Max(self.states)
      min_o == Min(other.states)
      corr == max_s - min_o + 1
      mapper(s) == IF s = other.final_state THEN self.final_state
                   ELSE IF s = other.start_state THEN self.start_state
                   ELSE s + corr
  IN NFA(self.states \cup {state + corr : state \in other.states \ {other.start_state, other.final_state}},
         self.alphabet \cup other.alphabet,
         self.transitions \cup {<<mapper(t[1]), t[2], mapper(t[3])>> : t \in other.transitions},
         self.start_state,
         self.final_state)

(* dfa_immutable minimize: no early return; the first two cells are the     *)
(* reachable non-final and the reachable final states, empty or not.        *)
immutable_minimize(self, order) ==
  LET reach == reachable(self, {self.start_state})
      st == [partitions |-> <<reach \ self.final_states, reach \cap self.final_states>>,
             final_states |-> {1},
             worklist |-> <<0, 1>>]
  IN minimize_return(self, refine(self, order, st))

VariantNfas == {a \in HeapNfas(MaxVariantStates, MaxVariantEdges) : Consistent(a)}

InitVariants ==
  /\ stack = <<>>
  /\ steps = 0
  /\ \/ /\ pc = "nfa_operands"
        /\ nfa \in VariantNfas
        /\ dfa = NoDfa
     \/ /\ pc = "dfa_operand"
        /\ nfa = NoNfa
        /\ \E n \in 1..MaxDfaStates :
             \E K \in SUBSET ((0..(n - 1)) \X Symbols) :
               \E transitions \in [K -> 0..(n - 1)], start_state \in 0..(n - 1),
                  final_states \in SUBSET (0..(n - 1)) :
                 dfa = DFA(0..(n - 1), Symbols, transitions, start_state, final_states)
  /\ string = <<>>
  /\ table = <<>>
  /\ result = "none"
  /\ call = NoCall
  /\ old = nfa
  /\ olddfa = dfa
  /\ RestInit

VariantAdd ==
  /\ pc = "nfa_operands"
  /\ \E other \in VariantNfas :
       /\ nfa' = concat(nfa, other)
       /\ params' = [op |-> "add", other |-> other, pure |-> immutable_add(nfa, other)]
  /\ pc' = "nfas"
  /\ UNCHANGED <<stack, steps, dfa, string, table, result, call, old, olddfa,
                 regex, postfix, heap, frame>>

VariantOr ==
  /\ pc = "nfa_operands"
  /\ \E other \in VariantNfas :
       /\ nfa' = union(nfa, other)
       /\ params' = [op |-> "or", other |-> other, pure |-> immutable_or(nfa, other)]
  /\ pc' = "nfas"
  /\ UNCHANGED <<stack, steps, dfa, string, table, result, call, old, olddfa,
                 regex, postfix, heap, frame>>

VariantMinimize ==
  /\ pc = "dfa_operand"
  /\ \E order \in Perms(dfa.alphabet), pure_order \in Perms(dfa.alphabet) :
       /\ dfa' = minimize(dfa, order)
       /\ params' = [op |-> "minimize", pure |-> immutable_minimize(dfa, pure_order)]
  /\ pc' = "dfas"
  /\ UNCHANGED <<stack, steps, nfa, string, table, result, call, old, olddfa,
                 regex, postfix, heap, frame>>

NextVariants == VariantAdd \/ VariantOr \/ VariantMinimize

SpecVariants == InitVariants /\ [][NextVariants]_vars

\* C24: the pure and the in-place variant of an operation agree: what A + B,
\* A | B and the pure minimize return has as many states as, and accepts the
\* same strings as, what concat, union and the in-place minimize leave in
\* their receiver for the same operands.
C24_VariantsAgree ==
  /\ pc = "nfas" =>
       /\ Cardinality(params.pure.states) = Cardinality(nfa.states)
       /\ NfaLang(params.pure) = NfaLang(nfa)
  /\ pc = "dfas" =>
       /\ Cardinality(params.pure.states) = Cardinality(dfa.states)
       /\ SameLanguage(params.pure, dfa)

(* Where the variants do agree: A | B always; A + B when no transition      *)
(* leaves the final state of A; minimize in language always, and in the     *)
(* number of states when a final and a non-final state are reachable.       *)
VariantsAgreeElsewhere ==
  /\ pc = "nfas" /\ params.op = "or" => params.pure = nfa
  /\ pc = "nfas" /\ params.op = "add" /\ (\A t \in old.transitions : t[1] # old.final_state) =>
       params.pure = nfa
  /\ pc = "dfas" => SameLanguage(params.pure, dfa)
  /\ pc = "dfas" /\ reachable(olddfa, {olddfa.start_state}) \cap olddfa.final_states # {}
                 /\ reachable(olddfa, {olddfa.start_state}) \ olddfa.final_states # {} =>
       Cardinality(params.pure.states) = Cardinality(dfa.states)

----------------------------------------------------------------------------
(* The duplicate-quantifier rewrite of _op_if_nonempty.  postfix is a       *)
(* postfix expression E built token by token, steps the number of operands  *)
(* its tokens leave on an evaluation stack; when E is one expression a      *)
(* quantifier q is applied to E followed by a quantifier p.                 *)

Quantifiers == {opStar, opPlus, opOpt}

InitQuant ==
  /\ pc = "expression"
  /\ stack = <<>>
  /\ steps = 0
  /\ nfa = NoNfa
  /\ dfa = NoDfa
  /\ string = <<>>
  /\ table = <<>>
  /\ result = "none"
  /\ call = NoCall
  /\ old = NoNfa
  /\ olddfa = NoDfa
  /\ RestInit

QuantLiteral ==
  /\ pc = "expression"
  /\ Len(postfix) < MaxPostfix
  /\ \E c \in {chA, chB} : postfix' = Append(postfix, c)
  /\ steps' = steps + 1
  /\ UNCHANGED <<pc, stack, nfa, dfa, string, table, result, call, old, olddfa,
                 regex, params, heap, frame>>

QuantOperator ==
  /\ pc = "expression"
  /\ Len(postfix) < MaxPostfix
  /\ \E op \in Operators :
       /\ steps >= num_args(op)
       /\ postfix' = Append(postfix, op)
       /\ steps' = steps - num_args(op) + 1
  /\ UNCHANGED <<pc, stack, nfa, dfa, string, table, result, call, old, olddfa,
                 regex, params, heap, frame>>

QuantApply ==
  /\ pc = "expression"
  /\ steps = 1
  /\ \E p \in Quantifiers, q \in Quantifiers :
       params' = [op |-> "_op_if_nonempty", p |-> p, q |-> q,
                  result |-> _op_if_nonempty(q, <<Append(postfix, p)>>)]
  /\ pc' = "applied"
  /\ UNCHANGED <<stack, steps, nfa, dfa, string, table, result, call, old, olddfa,
                 regex, postfix, heap, frame>>

NextQuant == QuantLiteral \/ QuantOperator \/ QuantApply

SpecQuant == InitQuant /\ [][NextQuant]_vars

\* C25: the quantifier q applied through _op_if_nonempty to the postfix
\* expression E p gives E followed by the one quantifier the rewrite table
\* has for (p, q), and that expression denotes the language of E p q.
C25_QuantifierRewrite ==
  pc = "applied" =>
    /\ params.result = Append(postfix, _duplicate_quantifiers(params.p, params.q))
    /\ PostfixLang(params.result, <<>>) = PostfixLang(postfix \o <<params.p, params.q>>, <<>>)

(* E is a union under a star, and ? was applied to E +. *)
C25_Witness ==
  /\ pc = "applied"
  /\ params.p = opPlus /\ params.q = opOpt
  /\ Len(postfix) >= 4
  /\ postfix[Len(postfix)] = opStar
  /\ postfix[Len(postfix) - 1] = opUnion

----------------------------------------------------------------------------
(* parsing.construct_string: from a postfix program back to a regex, and    *)
(* the round trip parse_regex, construct_string, parse_regex.  An entry of  *)
(* the stack is the pair (arg, op); NoOp stands for the None of a literal.  *)

NoOp == 0 - 1

\* if op is not None and precedence(op) < precedence(sym): arg = '(' + arg + ')'
parenthesize(entry, sym) ==
  IF entry.op # NoOp /\ precedence(entry.op) < precedence(sym)
  THEN <<chLPar>> \o entry.arg \o <<chRPar>>
  ELSE entry.arg

construct_string_op(sym, stk) ==
  LET n == Len(stk)
      args == [j \in 1..num_args(sym) |-> parenthesize(stk[n + 1 - j], sym)]
      below == SubSeq(stk, 1, n - num_args(sym))
      push(str) == Append(below, [arg |-> str, op |-> sym])
  IN CASE sym = opConcat -> push(args[2] \o args[1])
       [] sym = opUnion -> push(args[2] \o <<chBar>> \o args[1])
       [] sym = opStar -> push(args[1] \o <<chStar>>)
       [] sym = opPlus -> push(args[1] \o <<chPlus>>)
       [] sym = opOpt -> push(args[1] \o <<chOpt>>)
       [] OTHER -> stk

RECURSIVE construct_string_loop(_, _)
construct_string_loop(program, stk) ==
  IF program = <<>>
  THEN IF Len(stk) # 1 THEN [kind |-> "ValueError", string |-> <<>>]
       ELSE [kind |-> "ok", string |-> stk[1].arg]
  ELSE LET sym == program[1]
       IN IF is_int(sym)
          THEN IF Len(stk) < num_args(sym) THEN [kind |-> "IndexError", string |-> <<>>]
               ELSE construct_string_loop(Tail(program), construct_string_op(sym, stk))
          ELSE construct_string_loop(Tail(program), Append(stk, [arg |-> <<sym>>, op |-> NoOp]))

construct_string(program) ==
  IF Len(program) = 0 THEN [kind |-> "ok", string |-> <<>>]
  ELSE construct_string_loop(program, <<>>)

ConstructString ==
  /\ pc = "postfix"
  /\ LET r == construct_string(postfix)
     IN /\ string' = r.string
        /\ result' = r.kind
        /\ pc' = IF r.kind = "ok" THEN "string" ELSE "error"
  /\ UNCHANGED <<stack, steps, nfa, dfa, table, call, old, olddfa, rest>>

(* parse_regex on the string construct_string returned *)
ParseAgain ==
  /\ pc = "string"
  /\ LET r == parse_regex(string)
     IN /\ params' = [op |-> "parse_regex", kind |-> r.kind, postfix |-> r.postfix]
        /\ result' = r.kind
  /\ pc' = "parsed_again"
  /\ UNCHANGED <<stack, steps, nfa, dfa, string, table, call, old, olddfa,
                 regex, postfix, heap, frame>>

NextRound == ParseRegex \/ ConstructString \/ ParseAgain

SpecRound == InitParse /\ [][NextRound]_vars

Literals(program) == {program[j] : j \in {i \in 1..Len(program) : ~is_int(program[i])}}

(* What a postfix program denotes: the strings over chars, of at most       *)
(* MaxStrLen characters, that the automaton construct_nfa builds accepts.   *)
Denoted(program, chars) ==
  LET r == construct_nfa(program)
  IN [kind |-> r.kind,
      strings |-> IF r.kind = "ok"
                  THEN {s \in Strings(chars, MaxStrLen) : accept(r.nfa, s)}
                  ELSE {}]

SameDenoted(P, Q) ==
  Denoted(P, Literals(P) \cup Literals(Q)) = Denoted(Q, Literals(P) \cup Literals(Q))

\* C26: for a postfix program P that parse_regex produced and that denotes
\* a language, construct_string(P) is a string that parse_regex parses, into
\* a program that denotes the same language as P.
C26_RoundTrip ==
  pc = "parsed_again" /\ construct_nfa(postfix).kind = "ok" =>
    params.kind = "ok" /\ SameDenoted(postfix, params.postfix)

(* The round trip does hold for a program whose literals are none of the    *)
(* characters parse_regex gives a meaning.                                  *)
RoundTripPlain ==
  pc = "parsed_again" /\ construct_nfa(postfix).kind = "ok"
     /\ Literals(postfix) \cap (OperatorChars \cup {chBackslash}) = {} =>
    params.kind = "ok" /\ SameDenoted(postfix, params.postfix)

----------------------------------------------------------------------------
(* The language of a union.  In SpecVariants old is A, params.other is B    *)
(* and nfa is what A.union(B), the body of A | B, leaves.                   *)

\* C27: for any two valid NFAs A and B the automaton A | B accepts a string
\* if and only if A accepts it or B accepts it.
C27_UnionLanguage ==
  pc = "nfas" /\ params.op = "or" =>
    NfaLang(nfa) = NfaLang(old) \cup NfaLang(params.other)

(* The union is the union of the languages when both operands have the     *)
(* shape construct_nfa builds: distinct start and final, nothing entering   *)
(* start, nothing leaving final.                                            *)
UnionLanguageTerminals ==
  pc = "nfas" /\ params.op = "or" /\ Terminals(old) /\ Terminals(params.other) =>
    NfaLang(nfa) = NfaLang(old) \cup NfaLang(params.other)

----------------------------------------------------------------------------
(* The shape of the automata of construct_nfa.  In Spec stack is the        *)
(* evaluation stack while the program is read, steps the number of tokens   *)
(* read, and nfa the automaton returned.                                    *)

\* C28: every NFA on the evaluation stack of construct_nfa, and the NFA it
\* returns for a non-empty program, has a start state other than its final
\* state, no transition into its start state and no transition out of its
\* final state.
C28_SeparateTerminals ==
  /\ \A i \in 1..Len(stack) : Terminals(stack[i])
  /\ steps > 0 /\ nfa # NoNfa => Terminals(nfa)

(* Two automata on the stack, one made by a quantifier and one by concat   *)
(* or union.                                                               *)
C28_Witness ==
  /\ pc = "construct"
  /\ Len(stack) = 2
  /\ \E i \in 1..2 : \E t \in stack[i].transitions : t[2] = Eps
  /\ \E i \in 1..2 : Cardinality(stack[i].states) >= 3 /\ \A t \in stack[i].transitions : t[2] # Eps

----------------------------------------------------------------------------
(* NFA.rip, one pass of its second loop per step.  nfa is the receiver as   *)
(* it is at that point of the call and old the receiver when the call       *)
(* began.  frame holds the arguments and the locals: keys (the order in     *)
(* which self.transitions.items() is walked), i (the position in keys),     *)
(* outgoing_transitions, self_loops and transitions (the new dict).         *)

\* rip that removes state from dsts in place under safe as well
rip_dsts_in_place(self, key, state, safe) ==
  [self EXCEPT !.transitions = @ \ {<<key[1], key[2], state>>}]

(* dsts = dsts.difference((state,)) under safe leaves the set of self as it *)
(* is; dsts.remove(state) changes it.                                       *)
rip_dsts(self, key, state, safe) ==
  IF safe THEN self
  ELSE [self EXCEPT !.transitions = @ \ {<<key[1], key[2], state>>}]

(* The locals after the first loop. *)
rip_enter(self, state, safe, keys) ==
  [op |-> "rip", state |-> state, safe |-> safe, keys |-> keys, i |-> 1,
   outgoing_transitions |-> {<<t[2], t[3]>> : t \in {u \in self.transitions :
                                                     u[1] = state /\ u[3] # state}},
   self_loops |-> {t[2] : t \in {u \in self.transitions :
                                   u[1] = state /\ u[3] = state /\ u[2] # Eps}},
   transitions |-> {}]

(* One pass of the second loop, for the key keys[i].  kind is "None" when   *)
(* the pass returns None and "ok" otherwise; self is the receiver and fr    *)
(* the locals after the pass.  As in rip, a new label other than '' is      *)
(* added to the alphabet.                                                   *)
rip_key(self, fr) ==
  LET key == fr.keys[fr.i]
      src == key[1]
      sym == key[2]
      state == fr.state
      dsts == {t[3] : t \in {u \in self.transitions : u[1] = src /\ u[2] = sym}}
      loops == SetToSeq(fr.self_loops)
      new_sym(o) == IF fr.safe THEN (IF sym = Eps THEN o[1] ELSE sym)
                    ELSE rip_combine("default", sym, loops, o[1])
      added == {<<src, new_sym(o), o[2]>> : o \in fr.outgoing_transitions}
      next == [fr EXCEPT !.i = @ + 1]
      copied(ds) == {<<src, sym, dst>> : dst \in ds}
  IN IF src = state
     THEN [kind |-> "ok", self |-> self, fr |-> next]
     ELSE IF state \notin dsts
     THEN [kind |-> "ok", self |-> self,
           fr |-> [next EXCEPT !.transitions = @ \cup copied(dsts)]]
     ELSE IF fr.safe /\ sym # Eps /\ \E o \in fr.outgoing_transitions : o[1] # Eps
     THEN [kind |-> "None", self |-> self, fr |-> fr]
     ELSE [kind |-> "ok",
           self |-> [rip_dsts(self, key, state, fr.safe) EXCEPT
                       !.alphabet = IF fr.safe THEN @ ELSE @ \cup ({t[2] : t \in added} \ {Eps})],
           fr |-> [next EXCEPT !.transitions = @ \cup added \cup copied(dsts \ {state})]]

(* self.states.remove(state); self.transitions = transitions *)
rip_return(self, fr) ==
  [self EXCEPT !.states = @ \ {fr.state}, !.transitions = fr.transitions]

InitRip ==
  /\ pc = "nfa"
  /\ stack = <<>>
  /\ steps = 0
  /\ \E n \in 1..MaxNfaStates : IsSmallNfa(nfa, n, MaxEdges)
  /\ dfa = NoDfa
  /\ string = <<>>
  /\ table = <<>>
  /\ result = "none"
  /\ call = NoCall
  /\ old = nfa
  /\ olddfa = NoDfa
  /\ RestInit

(* A call for the start or the final state raises before anything else. *)
RipRaise ==
  /\ pc \in {"nfa", "raised", "none"}
  /\ steps < MaxRipCalls
  /\ \E state \in nfa.states, safe \in BOOLEAN :
       /\ is_terminal(nfa, state)
       /\ call' = Call("rip", state, safe)
  /\ pc' = "raised"
  /\ result' = "ValueError"
  /\ old' = nfa
  /\ steps' = steps + 1
  /\ frame' = NoFrame
  /\ UNCHANGED <<stack, nfa, dfa, string, table, olddfa, regex, postfix, params, heap>>

RipEnter ==
  /\ pc \in {"nfa", "raised", "none"}
  /\ steps < MaxRipCalls
  /\ \E state \in nfa.states, safe \in BOOLEAN :
       /\ ~is_terminal(nfa, state)
       /\ call' = Call("rip", state, safe)
       /\ \E keys \in Perms({<<t[1], t[2]>> : t \in nfa.transitions}) :
            frame' = rip_enter(nfa, state, safe, keys)
  /\ pc' = "rip"
  /\ result' = "none"
  /\ old' = nfa
  /\ steps' = steps + 1
  /\ UNCHANGED <<stack, nfa, dfa, string, table, olddfa, regex, postfix, params, heap>>

RipKey ==
  /\ pc = "rip"
  /\ frame.i <= Len(frame.keys)
  /\ \E r \in {rip_key(nfa, frame)} :
       /\ nfa' = r.self
       /\ frame' = r.fr
       /\ pc' = IF r.kind = "None" THEN "none" ELSE "rip"
       /\ result' = IF r.kind = "None" THEN "None" ELSE result
  /\ UNCHANGED <<stack, steps, dfa, string, table, call, old, olddfa,
                 regex, postfix, params, heap>>

RipReturn ==
  /\ pc = "rip"
  /\ frame.i > Len(frame.keys)
  /\ nfa' = rip_return(nfa, frame)
  /\ pc' = "ripped"
  /\ result' = "ok"
  /\ UNCHANGED <<stack, steps, dfa, string, table, call, old, olddfa, rest>>

NextRip == RipRaise \/ RipEnter \/ RipKey \/ RipReturn

SpecRip == InitRip /\ [][NextRip]_vars

(* The stepped loop ends as the operator rip says. *)
RipStepsAgree ==
  pc \in {"ripped", "none", "raised"} =>
    LET r == rip(old, call.state, call.safe, "default")
    IN /\ r.kind = (IF pc = "ripped" THEN "ok" ELSE result)
       /\ pc = "ripped" => nfa = r.nfa

\* C29: when rip(q, safe=True) returns the automaton, it accepts the same
\* strings as before the call, also when q has a self-loop.
C29_SafeRipLanguage ==
  pc = "ripped" /\ call.safe => NfaLang(nfa) = NfaLang(old)

(* The language is kept when q has no self-loop on a symbol. *)
SafeRipLanguageNoLoop ==
  pc = "ripped" /\ call.safe /\ frame.self_loops = {} => NfaLang(nfa) = NfaLang(old)

\* C30: a rip call that raises for the start or final state, or that returns
\* no result under safe=True, leaves states, alphabet, transitions, start and
\* final of the receiver as they were when the call began.
C30_FailedRipUnchanged ==
  pc \in {"raised", "none"} => nfa = old

(* rip(q, safe=True) returned no result in a later pass of the loop, after  *)
(* a pass that joined an epsilon edge into q with the edges out of q.       *)
C30_Witness ==
  /\ pc = "none"
  /\ call.safe
  /\ \E j \in 1..(frame.i - 1) :
       /\ frame.keys[j][2] = Eps
       /\ <<frame.keys[j][1], Eps, frame.state>> \in old.transitions
       /\ frame.keys[j][1] # frame.state

====
